---- MODULE Spec2Model ----
(***************************************************************************)
(* Model of ngio's plate/well metadata layer.                              *)
(*                                                                         *)
(* Specification Spec: the two-phase plate/well mutation protocol of       *)
(* OmeZarrPlate (hcs/plate.py) run by several processes over one store,    *)
(* with the advisory file locks of ZarrGroupHandler (utils/_zarr_utils.py).*)
(* Specification SpecOpen: construction of a ZarrGroupHandler over a store.*)
(* Specification SpecDispatch: the ordered registry of metadata handlers   *)
(* and its probing of a group (ome_zarr_meta/_handlers.py).                *)
(* Specification SpecMapper: construction and queries of an AxesMapper     *)
(* (ome_zarr_meta/ngio_specs/_axes.py).                                    *)
(* Specification SpecAttrs: attribute reads and writes of two handlers on  *)
(* one group, with the handler's cache and zarr's attribute cache.         *)
(* Specification SpecGroup: child creation, derived handlers and the lock  *)
(* file of ZarrGroupHandler.                                               *)
(***************************************************************************)
EXTENDS Naturals, Sequences, FiniteSets, TLC

VARIABLES
    storeArg,       \* the store argument every process opens the plate with
    parallel_safe,  \* the handlers' parallel_safe option
    plateDoc,       \* persisted plate document: its ordered list of well entries
    wellDoc,        \* persisted attributes of every well node
    lockOwner,      \* lock file -> the process whose FileLock holds it, or Free
    pc,             \* each process's position in the call it is running
    call,           \* each process's current (or last) call and its arguments
    meta,           \* each process's local `meta` / `well_meta` value
    res,            \* outcome of each process's last finished call
    calls,          \* number of calls started so far
    kinds,          \* history: the <<operation, atomic>> pairs started so far
    anyErr,         \* history: some call has raised
    addedOk,        \* history: <<well path, image path>> of every add that returned
    snap,           \* history: the documents a call found, kept while it runs alone
    hOpen,          \* state of the handler-construction specification
    dispatch,       \* state of the schema-dispatcher specification
    mapper,         \* state of the axes-mapper specification
    gh,             \* state of the group-handler specifications
    retry           \* history: the documents found by the failed call being retried

vars == <<storeArg, parallel_safe, plateDoc, wellDoc, lockOwner, pc, call, meta,
          res, calls, kinds, anyErr, addedOk, snap, hOpen, dispatch, mapper, gh, retry>>

plateVars == <<storeArg, parallel_safe, plateDoc, wellDoc, lockOwner, pc, call, meta,
               res, calls, kinds, anyErr, addedOk, snap, retry>>

----------------------------------------------------------------------------
(* Bounds and input sets *)

MaxCalls == 2

Procs == {"p1", "p2"}

Rows == {"A", "B"}

Columns == {"1"}

Images == {"0", "1"}

\* A store path is its sequence of components; a trailing "/" is an empty
\* last component.
StoreArgs == {<<"plate.zarr">>, <<"plate.zarr", "">>}

Free == "free"

----------------------------------------------------------------------------
(* Paths and lock files *)

\* zarr's DirectoryStore keeps os.path.abspath(path): empty components go.
AbsPath(p) == SelectSeq(p, LAMBDA c : c # "")

\* open_group_wrapper on a path: the store is the argument as passed.
StoreOfPath(p) == p

\* open_group_wrapper on a zarr.Group of a DirectoryStore: group.store.path,
\* the root of the store whatever the group's own path.
StoreOfGroup(p) == AbsPath(p)

\* f"{_store}.lock"
LockPath(store) == [store EXCEPT ![Len(store)] = @ \o ".lock"]

\* The plate handler is built from the path, a derived handler from a group.
PlateLockPath == LockPath(StoreOfPath(storeArg))

WellLockPath == LockPath(StoreOfGroup(storeArg))

LockFiles == UNION {{LockPath(StoreOfPath(s)), LockPath(StoreOfGroup(s))} : s \in StoreArgs}

\* f"{row}/{column}"
WellPath(row, column) == row \o "/" \o column

WellPaths == {WellPath(r, c) : r \in Rows, c \in Columns}

----------------------------------------------------------------------------
(* Documents *)

WellRef(row, column) == [path |-> WellPath(row, column), row |-> row, column |-> column]

NoAttrs == [has_attrs |-> FALSE, images |-> <<>>]

WellAttrs(images) == [has_attrs |-> TRUE, images |-> images]

Range(s) == {s[i] : i \in 1..Len(s)}

wells_paths(plate) == [i \in 1..Len(plate) |-> plate[i].path]

\* NgioPlateMeta.add_well: the well is added unless (row, column) is listed.
add_well(plate, row, column) ==
    IF \E i \in 1..Len(plate) : plate[i].row = row /\ plate[i].column = column
    THEN plate
    ELSE Append(plate, WellRef(row, column))

\* NgioPlateMeta.remove_well: the well's entry is dropped.
remove_well(plate, row, column) ==
    SelectSeq(plate, LAMBDA w : ~(w.row = row /\ w.column = column))

\* NgioWellMeta.add_image, on a path the well does not hold yet.
add_image(images, path) == Append(images, path)

\* NgioWellMeta.remove_image, on a path the well holds.
remove_image(images, path) == SelectSeq(images, LAMBDA i : i # path)

----------------------------------------------------------------------------
(* Locks: FileLock(self._lock_path, timeout=10) *)

LockTimeoutSeconds == 10

\* Mutant of CanAcquire: a lock that excludes nobody.
CanAlwaysAcquire(f) == TRUE

\* A FileLock is acquired only while no FileLock object, of this or of another
\* process, holds the lock file: two FileLock objects on one file exclude each
\* other also inside one process.
CanAcquire(f) == lockOwner[f] = Free

\* Mutant of AcquireMayTimeOut: FileLock(..., timeout=-1) waits without end.
NeverTimesOut == FALSE

\* acquire() gives up with Timeout once the (non-negative) timeout has passed.
AcquireMayTimeOut == LockTimeoutSeconds >= 0

\* Mutant of HasLock: the lock property answers on every handler.
HasLockAlways == TRUE

\* ZarrGroupHandler.lock raises on a handler that is not parallel safe.
HasLock == parallel_safe

\* Mutant of Acquired: entering the `with` block takes no lock (a MockLock).
AcquiredNothing(p, f) == lockOwner

\* `with lock:` entered: the lock file is held by p's FileLock.
Acquired(p, f) == [lockOwner EXCEPT ![f] = p]

Released(f) == [lockOwner EXCEPT ![f] = Free]

\* Mutant of ReleasedAll: an exception leaves the locks as they are.
ReleasedNothing(p) == lockOwner

\* An exception leaves every enclosing `with` block.
ReleasedAll(p) == [f \in LockFiles |-> IF lockOwner[f] = p THEN Free ELSE lockOwner[f]]

----------------------------------------------------------------------------
(* Calls *)

NoCall == [op |-> "none", atomic |-> FALSE, row |-> "A", column |-> "1", image |-> "0"]

NoSnap == [valid |-> FALSE, plate |-> <<>>, well |-> NoAttrs]

NoRetry == [valid |-> FALSE, proc |-> "p1", stage |-> "", plate |-> <<>>, well |-> NoAttrs]

Well(p) == WellPath(call[p].row, call[p].column)

Idle(p) == pc[p] = "idle"

\* The store a run starts from: a plate as create_empty_plate leaves it, or
\* that plate after add_image("A", "1", "0").
InitDocs ==
    {[plate |-> <<>>, wells |-> [w \in WellPaths |-> NoAttrs]],
     [plate |-> add_well(<<>>, "A", "1"),
      wells |-> [w \in WellPaths |-> IF w = WellPath("A", "1")
                                     THEN WellAttrs(add_image(<<>>, "0"))
                                     ELSE NoAttrs]]}

Init ==
    /\ storeArg \in StoreArgs
    /\ parallel_safe \in BOOLEAN
    \* without locks the spelling of the store argument plays no part
    /\ ~parallel_safe => storeArg = <<"plate.zarr">>
    /\ \E d \in InitDocs : plateDoc = d.plate /\ wellDoc = d.wells
    /\ lockOwner = [f \in LockFiles |-> Free]
    /\ pc = [p \in Procs |-> "idle"]
    /\ call = [p \in Procs |-> NoCall]
    /\ meta = [p \in Procs |-> <<>>]
    /\ res = [p \in Procs |-> "none"]
    /\ calls = 0
    /\ kinds = {}
    /\ anyErr = FALSE
    /\ addedOk = {}
    /\ snap = [p \in Procs |-> NoSnap]
    /\ hOpen = "unused"
    /\ dispatch = "unused"
    /\ mapper = "unused"
    /\ gh = "unused"
    /\ retry = NoRetry

\* The call raises: the exception unwinds the `with` blocks and reaches the caller.
Raise(p, err) ==
    /\ pc' = [pc EXCEPT ![p] = "idle"]
    /\ res' = [res EXCEPT ![p] = err]
    /\ meta' = [meta EXCEPT ![p] = <<>>]
    /\ lockOwner' = ReleasedAll(p)
    /\ anyErr' = TRUE
    /\ UNCHANGED <<storeArg, parallel_safe, plateDoc, wellDoc, call, calls, kinds,
                   addedOk, snap, hOpen, dispatch, mapper, gh, retry>>

Goto(p, label) == pc' = [pc EXCEPT ![p] = label]

\* How far the failed call of p, which ran alone on the documents snap[p], had
\* got, read from the documents it left: an add between its two writes, a
\* remove of the last image between the write of the well and the cascade's.
FailedStage(p) ==
    LET w == Well(p)
    IN  IF call[p].op = "add"
             /\ w \in Range(wells_paths(plateDoc))
             /\ wellDoc[w] = snap[p].well
        THEN "add_between"
        ELSE IF call[p].op = "remove"
             /\ snap[p].well.images = <<call[p].image>>
             /\ wellDoc[w] = WellAttrs(<<>>)
             /\ w \in Range(wells_paths(snap[p].plate))
             /\ plateDoc = snap[p].plate
        THEN "remove_between"
        ELSE "other"

\* The caller re-invokes the call of p that has just raised, with the same
\* arguments and with nothing run in between.
IsRetry(p, c) ==
    /\ \A r \in Procs \ {p} : Idle(r)
    /\ snap[p].valid
    /\ call[p] = c
    /\ res[p] \notin {"ok", "none"}

\* add_image / atomic_add_image / remove_image / atomic_remove_image is called.
\* A run is made of atomic calls or of non-atomic calls, not of both; what the
\* other processes' last calls returned is forgotten when a call starts.
StartCall(p, op, atomic, row, column, image) ==
    /\ Idle(p)
    /\ calls < MaxCalls
    /\ \A k \in kinds : k[2] = atomic
    /\ calls' = calls + 1
    /\ call' = [q \in Procs |->
                  IF q = p THEN [op |-> op, atomic |-> atomic, row |-> row,
                                 column |-> column, image |-> image]
                  ELSE IF Idle(q) THEN NoCall ELSE call[q]]
    /\ Goto(p, IF op = "add" THEN "add_enter_plate" ELSE "rm_get_well")
    /\ res' = [q \in Procs |-> IF q = p \/ Idle(q) THEN "none" ELSE res[q]]
    /\ kinds' = kinds \cup {<<op, atomic>>}
    /\ snap' = [q \in Procs |->
                  IF q = p /\ \A r \in Procs \ {p} : Idle(r)
                  THEN [valid |-> TRUE, plate |-> plateDoc,
                        well |-> wellDoc[WellPath(row, column)]]
                  ELSE NoSnap]
    /\ retry' = LET c == [op |-> op, atomic |-> atomic, row |-> row,
                           column |-> column, image |-> image]
                IN  IF IsRetry(p, c)
                    THEN [valid |-> TRUE, proc |-> p, stage |-> FailedStage(p),
                          plate |-> snap[p].plate, well |-> snap[p].well]
                    ELSE NoRetry
    /\ UNCHANGED <<storeArg, parallel_safe, plateDoc, wellDoc, lockOwner, meta,
                   anyErr, addedOk, hOpen, dispatch, mapper, gh>>

----------------------------------------------------------------------------
(* OmeZarrPlate._add_image *)

\* `if atomic: plate_lock = self._group_handler.lock` and `with plate_lock:`.
AddEnterPlate(p) ==
    /\ pc[p] = "add_enter_plate"
    /\ \/ /\ call[p].atomic /\ ~HasLock
          /\ Raise(p, "NgioValueError")
       \/ /\ call[p].atomic /\ HasLock
          /\ CanAcquire(PlateLockPath)
          /\ lockOwner' = Acquired(p, PlateLockPath)
          /\ Goto(p, "add_load_plate")
          /\ UNCHANGED <<storeArg, parallel_safe, plateDoc, wellDoc, call, meta, res,
                         calls, kinds, anyErr, addedOk, snap, hOpen, dispatch, mapper, gh, retry>>
       \/ /\ ~call[p].atomic
          /\ Goto(p, "add_load_plate")
          /\ UNCHANGED <<storeArg, parallel_safe, plateDoc, wellDoc, lockOwner, call,
                         meta, res, calls, kinds, anyErr, addedOk, snap, hOpen, dispatch, mapper, gh, retry>>

\* `meta = self.meta`
AddLoadPlate(p) ==
    /\ pc[p] = "add_load_plate"
    /\ meta' = [meta EXCEPT ![p] = plateDoc]
    /\ Goto(p, "add_write_plate")
    /\ UNCHANGED <<storeArg, parallel_safe, plateDoc, wellDoc, lockOwner, call, res,
                   calls, kinds, anyErr, addedOk, snap, hOpen, dispatch, mapper, gh, retry>>

\* Mutant of PlateWithWell: the well entry is appended without looking for it.
PlateWithWellAppended(plate, row, column) == Append(plate, WellRef(row, column))

\* `meta = meta.add_well(...)`
PlateWithWell(plate, row, column) == add_well(plate, row, column)

\* Mutant of AddWritePlate: the plate phase ends without persisting.
AddWritePlateNotPersisted(p) ==
    /\ pc[p] = "add_write_plate"
    /\ meta' = [meta EXCEPT ![p] = <<>>]
    /\ Goto(p, "add_exit_plate")
    /\ UNCHANGED <<storeArg, parallel_safe, plateDoc, wellDoc, lockOwner, call, res,
                   calls, kinds, anyErr, addedOk, snap, hOpen, dispatch, mapper, gh, retry>>

\* `meta = meta.add_well(...)`, `write_meta(meta)`, `clean_cache()`
AddWritePlate(p) ==
    /\ pc[p] = "add_write_plate"
    /\ plateDoc' = PlateWithWell(meta[p], call[p].row, call[p].column)
    /\ meta' = [meta EXCEPT ![p] = <<>>]
    /\ Goto(p, "add_exit_plate")
    /\ UNCHANGED <<storeArg, parallel_safe, wellDoc, lockOwner, call, res, calls,
                   kinds, anyErr, addedOk, snap, hOpen, dispatch, mapper, gh, retry>>

\* The end of `with plate_lock:`.
AddExitPlate(p) ==
    /\ pc[p] = "add_exit_plate"
    /\ lockOwner' = IF call[p].atomic THEN Released(PlateLockPath) ELSE lockOwner
    /\ Goto(p, "add_enter_well")
    /\ UNCHANGED <<storeArg, parallel_safe, plateDoc, wellDoc, call, meta, res, calls,
                   kinds, anyErr, addedOk, snap, hOpen, dispatch, mapper, gh, retry>>

\* derive_handler(well_path), `well_lock = group_handler.lock`, `with well_lock:`.
AddEnterWell(p) ==
    /\ pc[p] = "add_enter_well"
    /\ \/ /\ call[p].atomic
          /\ CanAcquire(WellLockPath)
          /\ lockOwner' = Acquired(p, WellLockPath)
       \/ /\ ~call[p].atomic
          /\ UNCHANGED lockOwner
    /\ Goto(p, "add_load_well")
    /\ UNCHANGED <<storeArg, parallel_safe, plateDoc, wellDoc, call, meta, res, calls,
                   kinds, anyErr, addedOk, snap, hOpen, dispatch, mapper, gh, retry>>

\* Mutant of InitialWellMeta: the default document is taken also when the
\* node has attributes.
DefaultWellMeta(attrs) == <<>>

\* `attrs = group_handler.load_attrs()`: a node without attributes starts from
\* the default well document, any other is loaded through its handler.
InitialWellMeta(attrs) == IF ~attrs.has_attrs THEN <<>> ELSE attrs.images

AddLoadWell(p) ==
    /\ pc[p] = "add_load_well"
    /\ meta' = [meta EXCEPT ![p] = InitialWellMeta(wellDoc[Well(p)])]
    /\ Goto(p, "add_write_well")
    /\ UNCHANGED <<storeArg, parallel_safe, plateDoc, wellDoc, lockOwner, call, res,
                   calls, kinds, anyErr, addedOk, snap, hOpen, dispatch, mapper, gh, retry>>

\* `well_meta.add_image(...)`, `write_meta(well_meta)`, `clean_cache()`
AddWriteWell(p) ==
    /\ pc[p] = "add_write_well"
    /\ \/ /\ call[p].image \in Range(meta[p])
          /\ Raise(p, "NgioValueError")
       \/ /\ call[p].image \notin Range(meta[p])
          /\ wellDoc' = [wellDoc EXCEPT ![Well(p)] =
                            WellAttrs(add_image(meta[p], call[p].image))]
          /\ meta' = [meta EXCEPT ![p] = <<>>]
          /\ Goto(p, "add_exit_well")
          /\ UNCHANGED <<storeArg, parallel_safe, plateDoc, lockOwner, call, res,
                         calls, kinds, anyErr, addedOk, snap, hOpen, dispatch, mapper, gh, retry>>

\* The end of `with well_lock:`; _add_image returns.
AddExitWell(p) ==
    /\ pc[p] = "add_exit_well"
    /\ lockOwner' = IF call[p].atomic THEN Released(WellLockPath) ELSE lockOwner
    /\ Goto(p, "idle")
    /\ res' = [res EXCEPT ![p] = "ok"]
    /\ addedOk' = addedOk \cup {<<Well(p), call[p].image>>}
    /\ UNCHANGED <<storeArg, parallel_safe, plateDoc, wellDoc, call, meta, calls,
                   kinds, anyErr, snap, hOpen, dispatch, mapper, gh, retry>>

----------------------------------------------------------------------------
(* OmeZarrPlate._remove_image and _remove_well *)

\* `well = self.get_well(row, column)`: the well's handler is found by
\* validating its attributes; `well_lock = ...lock`.
RmGetWell(p) ==
    /\ pc[p] = "rm_get_well"
    /\ \/ /\ ~wellDoc[Well(p)].has_attrs
          /\ Raise(p, "NgioValidationError")
       \/ /\ wellDoc[Well(p)].has_attrs
          /\ call[p].atomic /\ ~HasLock
          /\ Raise(p, "NgioValueError")
       \/ /\ wellDoc[Well(p)].has_attrs
          /\ call[p].atomic => HasLock
          /\ Goto(p, "rm_enter_well")
          /\ UNCHANGED <<storeArg, parallel_safe, plateDoc, wellDoc, lockOwner, call,
                         meta, res, calls, kinds, anyErr, addedOk, snap, hOpen, dispatch, mapper, gh, retry>>

\* `with well_lock:`
RmEnterWell(p) ==
    /\ pc[p] = "rm_enter_well"
    /\ \/ /\ call[p].atomic
          /\ CanAcquire(WellLockPath)
          /\ lockOwner' = Acquired(p, WellLockPath)
       \/ /\ ~call[p].atomic
          /\ UNCHANGED lockOwner
    /\ Goto(p, "rm_load_well")
    /\ UNCHANGED <<storeArg, parallel_safe, plateDoc, wellDoc, call, meta, res, calls,
                   kinds, anyErr, addedOk, snap, hOpen, dispatch, mapper, gh, retry>>

\* `well_meta = well.meta`
RmLoadWell(p) ==
    /\ pc[p] = "rm_load_well"
    /\ meta' = [meta EXCEPT ![p] = wellDoc[Well(p)].images]
    /\ Goto(p, "rm_write_well")
    /\ UNCHANGED <<storeArg, parallel_safe, plateDoc, wellDoc, lockOwner, call, res,
                   calls, kinds, anyErr, addedOk, snap, hOpen, dispatch, mapper, gh, retry>>

\* Mutant of NeedsCascade: the cascade is never run.
NeverCascade(well_meta) == FALSE

\* Mutant of NeedsCascade: the cascade is run after every removal.
AlwaysCascade(well_meta) == TRUE

\* `if len(well_meta.paths()) == 0:`
NeedsCascade(well_meta) == Len(well_meta) = 0

\* Mutant of RmWriteWell: the not-found error of remove_image is swallowed and
\* the call goes on to persist.
RmWriteWellUnchecked(p) ==
    /\ pc[p] = "rm_write_well"
    /\ LET well_meta == remove_image(meta[p], call[p].image)
       IN  /\ wellDoc' = [wellDoc EXCEPT ![Well(p)] = WellAttrs(well_meta)]
           /\ Goto(p, IF Len(well_meta) = 0 THEN "rmw_enter_plate" ELSE "rm_exit_well")
    /\ meta' = [meta EXCEPT ![p] = <<>>]
    /\ UNCHANGED <<storeArg, parallel_safe, plateDoc, lockOwner, call, res,
                   calls, kinds, anyErr, addedOk, snap, hOpen, dispatch, mapper, gh, retry>>

\* `well_meta.remove_image(path)`, `write_meta(well_meta)`, `clean_cache()`,
\* and the test for the cascade.
RmWriteWell(p) ==
    /\ pc[p] = "rm_write_well"
    /\ \/ /\ call[p].image \notin Range(meta[p])
          /\ Raise(p, "NotFound")
       \/ /\ call[p].image \in Range(meta[p])
          /\ LET well_meta == remove_image(meta[p], call[p].image)
             IN  /\ wellDoc' = [wellDoc EXCEPT ![Well(p)] = WellAttrs(well_meta)]
                 /\ Goto(p, IF NeedsCascade(well_meta) THEN "rmw_enter_plate"
                                                       ELSE "rm_exit_well")
          /\ meta' = [meta EXCEPT ![p] = <<>>]
          /\ UNCHANGED <<storeArg, parallel_safe, plateDoc, lockOwner, call, res,
                         calls, kinds, anyErr, addedOk, snap, hOpen, dispatch, mapper, gh, retry>>

\* _remove_well: `plate_lock = self._group_handler.lock`, `with plate_lock:`,
\* entered while the well lock is held.
RmwEnterPlate(p) ==
    /\ pc[p] = "rmw_enter_plate"
    /\ \/ /\ call[p].atomic
          /\ CanAcquire(PlateLockPath)
          /\ lockOwner' = Acquired(p, PlateLockPath)
       \/ /\ ~call[p].atomic
          /\ UNCHANGED lockOwner
    /\ Goto(p, "rmw_load_plate")
    /\ UNCHANGED <<storeArg, parallel_safe, plateDoc, wellDoc, call, meta, res, calls,
                   kinds, anyErr, addedOk, snap, hOpen, dispatch, mapper, gh, retry>>

\* _remove_well: `meta = self.meta`
RmwLoadPlate(p) ==
    /\ pc[p] = "rmw_load_plate"
    /\ meta' = [meta EXCEPT ![p] = plateDoc]
    /\ Goto(p, "rmw_write_plate")
    /\ UNCHANGED <<storeArg, parallel_safe, plateDoc, wellDoc, lockOwner, call, res,
                   calls, kinds, anyErr, addedOk, snap, hOpen, dispatch, mapper, gh, retry>>

\* _remove_well: `meta.remove_well(...)`, `write_meta(meta)`, `clean_cache()`
RmwWritePlate(p) ==
    /\ pc[p] = "rmw_write_plate"
    /\ plateDoc' = remove_well(meta[p], call[p].row, call[p].column)
    /\ meta' = [meta EXCEPT ![p] = <<>>]
    /\ Goto(p, "rmw_exit_plate")
    /\ UNCHANGED <<storeArg, parallel_safe, wellDoc, lockOwner, call, res, calls,
                   kinds, anyErr, addedOk, snap, hOpen, dispatch, mapper, gh, retry>>

\* _remove_well: the end of `with plate_lock:`; _remove_well returns.
RmwExitPlate(p) ==
    /\ pc[p] = "rmw_exit_plate"
    /\ lockOwner' = IF call[p].atomic THEN Released(PlateLockPath) ELSE lockOwner
    /\ Goto(p, "rm_exit_well")
    /\ UNCHANGED <<storeArg, parallel_safe, plateDoc, wellDoc, call, meta, res, calls,
                   kinds, anyErr, addedOk, snap, hOpen, dispatch, mapper, gh, retry>>

\* The end of `with well_lock:`; _remove_image returns.
RmExitWell(p) ==
    /\ pc[p] = "rm_exit_well"
    /\ lockOwner' = IF call[p].atomic THEN Released(WellLockPath) ELSE lockOwner
    /\ Goto(p, "idle")
    /\ res' = [res EXCEPT ![p] = "ok"]
    /\ UNCHANGED <<storeArg, parallel_safe, plateDoc, wellDoc, call, meta, calls,
                   kinds, anyErr, addedOk, snap, hOpen, dispatch, mapper, gh, retry>>

----------------------------------------------------------------------------
(* Lock waits and failures *)

\* The lock file a process is about to acquire, if any.
AwaitedLock(p) ==
    IF ~call[p].atomic THEN {}
    ELSE IF pc[p] \in {"add_enter_plate", "rmw_enter_plate"} /\ HasLock THEN {PlateLockPath}
    ELSE IF pc[p] \in {"add_enter_well", "rm_enter_well"} THEN {WellLockPath}
    ELSE {}

\* FileLock.acquire raises Timeout: the lock file stayed held for the whole
\* timeout. No retry follows: the exception leaves the call.
LockTimeout(p) ==
    /\ AcquireMayTimeOut
    /\ \E f \in AwaitedLock(p) : ~CanAcquire(f)
    /\ Raise(p, "Timeout")

\* Mutant of Fail: a failing call puts back the documents it found.
FailWithRollback(p) ==
    /\ ~Idle(p)
    /\ pc' = [pc EXCEPT ![p] = "idle"]
    /\ res' = [res EXCEPT ![p] = "StorageError"]
    /\ meta' = [meta EXCEPT ![p] = <<>>]
    /\ lockOwner' = ReleasedAll(p)
    /\ anyErr' = TRUE
    /\ plateDoc' = IF snap[p].valid THEN snap[p].plate ELSE plateDoc
    /\ wellDoc' = IF snap[p].valid THEN [wellDoc EXCEPT ![Well(p)] = snap[p].well]
                                    ELSE wellDoc
    /\ UNCHANGED <<storeArg, parallel_safe, call, calls, kinds, addedOk, snap,
                   hOpen, dispatch, mapper, gh, retry>>

\* A storage error (or the death of the process) at any step of a call.
Fail(p) ==
    /\ ~Idle(p)
    /\ Raise(p, "StorageError")

Step(p) ==
    \/ AddEnterPlate(p) \/ AddLoadPlate(p) \/ AddWritePlate(p) \/ AddExitPlate(p)
    \/ AddEnterWell(p) \/ AddLoadWell(p) \/ AddWriteWell(p) \/ AddExitWell(p)
    \/ RmGetWell(p) \/ RmEnterWell(p) \/ RmLoadWell(p) \/ RmWriteWell(p)
    \/ RmwEnterPlate(p) \/ RmwLoadPlate(p) \/ RmwWritePlate(p) \/ RmwExitPlate(p)
    \/ RmExitWell(p)
    \/ LockTimeout(p)

Next ==
    \/ \E p \in Procs, op \in {"add", "remove"}, atomic \in BOOLEAN,
          row \in Rows, column \in Columns, image \in Images :
            StartCall(p, op, atomic, row, column, image)
    \/ \E p \in Procs : Step(p)
    \/ \E p \in Procs : Fail(p)

Spec == Init /\ [][Next]_vars

----------------------------------------------------------------------------
(* Construction of a handler: ZarrGroupHandler.__init__, open_group_wrapper,  *)
(* open_omezarr_plate and create_empty_plate.  The store location holds       *)
(* "none" (nothing), "old" (a plate written earlier), "empty" (a group        *)
(* without attributes) or "plate" (the document of an empty plate).           *)

Modes == {"r", "r+", "w", "w-", "a"}

ModeArgs == Modes \cup {"x"}

Entries == {"ZarrGroupHandler", "open_omezarr_plate", "create_empty_plate"}

\* "path": a str or Path; "fsmap": a supported store that is no path;
\* "other": a store _check_store rejects.
StoreKinds == {"path", "fsmap", "other"}

\* The parallel_safe a call runs with: the argument, or the entry's default.
DefaultParallelSafe(entry) == entry # "ZarrGroupHandler"

EffectiveParallelSafe(h) ==
    IF h.ps_arg = "unset" THEN DefaultParallelSafe(h.entry) ELSE h.ps_arg = "true"

\* Mutant of EffectiveMode: create_empty_plate always opens with "w".
EffectiveModeOverwriting(h) ==
    IF h.entry = "create_empty_plate" THEN "w" ELSE h.mode

\* create_empty_plate: `mode = "w" if overwrite else "w-"`
EffectiveMode(h) ==
    IF h.entry = "create_empty_plate"
    THEN (IF h.overwrite THEN "w" ELSE "w-")
    ELSE h.mode

\* Mutant of ExclusiveOptions: the two options are not checked against each other.
NoExclusiveOptions(ps, cache) == FALSE

\* `if parallel_safe and cache:`
ExclusiveOptions(ps, cache) == ps /\ cache

\* zarr.open_group(store, mode) on a location holding `content`: what the
\* location holds afterwards, or the error raised.
OpenGroup(content, mode) ==
    CASE mode \in {"r", "r+"} ->
            IF content = "none" THEN [err |-> "NgioFileNotFoundError", content |-> content]
            ELSE [err |-> "", content |-> content]
      [] mode = "a" ->
            [err |-> "", content |-> IF content = "none" THEN "empty" ELSE content]
      [] mode = "w" ->
            [err |-> "", content |-> "empty"]
      [] mode = "w-" ->
            IF content = "none" THEN [err |-> "", content |-> "empty"]
            ELSE [err |-> "NgioFileExistsError", content |-> content]

\* The plate document a location holds, by what the location holds: "old" is
\* a plate with the well A/1, "plate" what create_empty_plate writes,
\* NgioPlateMeta.default_init(rows=[], columns=[], ...).
NoDocument == [found |-> FALSE, rows |-> <<>>, columns |-> <<>>, wells |-> <<>>]

NothingRead == [done |-> FALSE, doc |-> NoDocument]

PlateDocument(content) ==
    CASE content = "plate" ->
            [found |-> TRUE, rows |-> <<>>, columns |-> <<>>, wells |-> <<>>]
      [] content = "old" ->
            [found |-> TRUE, rows |-> <<"A">>, columns |-> <<"1">>,
             wells |-> wells_paths(add_well(<<>>, "A", "1"))]
      [] OTHER -> NoDocument

OpenInputs ==
    {h \in [entry : Entries, cache : BOOLEAN, ps_arg : {"unset", "true", "false"},
            mode : ModeArgs, overwrite : BOOLEAN, kind : StoreKinds,
            content0 : {"none", "old"}] :
        /\ h.entry = "create_empty_plate" => h.mode = "w-"
        /\ h.entry # "create_empty_plate" => ~h.overwrite}

InitOpen ==
    /\ storeArg = <<"plate.zarr">>
    /\ parallel_safe = FALSE
    /\ plateDoc = <<>>
    /\ wellDoc = [w \in WellPaths |-> NoAttrs]
    /\ lockOwner = [f \in LockFiles |-> Free]
    /\ pc = [p \in Procs |-> "idle"]
    /\ call = [p \in Procs |-> NoCall]
    /\ meta = [p \in Procs |-> <<>>]
    /\ res = [p \in Procs |-> "none"]
    /\ calls = 0
    /\ kinds = {}
    /\ anyErr = FALSE
    /\ addedOk = {}
    /\ snap = [p \in Procs |-> NoSnap]
    /\ retry = NoRetry
    /\ dispatch = "unused"
    /\ mapper = "unused"
    /\ gh = "unused"
    /\ \E h \in OpenInputs :
          hOpen = [in |-> h, phase |-> "check", err |-> "", content |-> h.content0,
                   opened |-> FALSE, has_lock |-> FALSE, read |-> NothingRead]

OpenFailed(err) == hOpen' = [hOpen EXCEPT !.phase = "failed", !.err = err]

\* __init__: the checks of the mode and of the two options.
OpenCheckArgs ==
    /\ hOpen.phase = "check"
    /\ IF EffectiveMode(hOpen.in) \notin Modes
       THEN OpenFailed("NgioValueError")
       ELSE IF ExclusiveOptions(EffectiveParallelSafe(hOpen.in), hOpen.in.cache)
       THEN OpenFailed("NgioValueError")
       ELSE hOpen' = [hOpen EXCEPT !.phase = "open"]
    /\ UNCHANGED <<plateVars, dispatch, mapper, gh>>

\* __init__: `_group, _store = open_group_wrapper(store, mode)`
OpenStore ==
    /\ hOpen.phase = "open"
    /\ IF hOpen.in.kind = "other"
       THEN OpenFailed("NotImplementedError")
       ELSE LET r == OpenGroup(hOpen.content, EffectiveMode(hOpen.in))
            IN  hOpen' = [hOpen EXCEPT !.opened = TRUE,
                                       !.content = r.content,
                                       !.err = r.err,
                                       !.phase = IF r.err = "" THEN "lock" ELSE "failed"]
    /\ UNCHANGED <<plateVars, dispatch, mapper, gh>>

\* __init__: `if parallel_safe:` the store must be a path; the FileLock is made.
OpenMakeLock ==
    /\ hOpen.phase = "lock"
    /\ IF EffectiveParallelSafe(hOpen.in) /\ hOpen.in.kind # "path"
       THEN OpenFailed("NgioValueError")
       ELSE hOpen' = [hOpen EXCEPT !.has_lock = EffectiveParallelSafe(hOpen.in),
                                   !.phase = IF hOpen.in.entry = "ZarrGroupHandler"
                                             THEN "ready"
                                             ELSE IF hOpen.in.entry = "create_empty_plate"
                                             THEN "write_meta" ELSE "find_meta"]
    /\ UNCHANGED <<plateVars, dispatch, mapper, gh>>

\* create_empty_plate: `meta_handler.write_meta(plate_meta)`
OpenWriteMeta ==
    /\ hOpen.phase = "write_meta"
    /\ hOpen' = [hOpen EXCEPT !.content = "plate", !.phase = "find_meta"]
    /\ UNCHANGED <<plateVars, dispatch, mapper, gh>>

\* `OmeZarrPlate(group_handler)`: the plate's metadata handler is found by
\* validating the attributes of the group.
OpenFindMeta ==
    /\ hOpen.phase = "find_meta"
    /\ IF hOpen.content \in {"old", "plate"}
       THEN hOpen' = [hOpen EXCEPT !.phase = "ready"]
       ELSE OpenFailed("NgioValidationError")
    /\ UNCHANGED <<plateVars, dispatch, mapper, gh>>

\* After create_empty_plate has returned or raised, another handle is opened
\* on the same location, open_omezarr_plate with its default mode "r+" and
\* options the store admits, and its rows, columns and wells_paths are read.
OpenAfterwards ==
    /\ hOpen.in.entry = "create_empty_plate"
    /\ hOpen.phase \in {"ready", "failed"}
    /\ ~hOpen.read.done
    /\ LET r == OpenGroup(hOpen.content, "r+")
       IN  hOpen' = [hOpen EXCEPT
                        !.read = [done |-> TRUE,
                                  doc |-> IF r.err = "" THEN PlateDocument(r.content)
                                                        ELSE NoDocument]]
    /\ UNCHANGED <<plateVars, dispatch, mapper, gh>>

NextOpen ==
    \/ OpenCheckArgs
    \/ OpenStore
    \/ OpenMakeLock
    \/ OpenWriteMeta
    \/ OpenFindMeta
    \/ OpenAfterwards

SpecOpen == InitOpen /\ [][NextOpen]_vars

\* C8: a construction with caching and parallel_safe both in effect never
\* gets past its checks: it fails, the store is not opened and the location
\* holds what it held, whatever the mode and whether parallel_safe was given
\* or is the default of open_omezarr_plate / create_empty_plate.
C8_CacheWithLockRejected ==
    (hOpen.in.cache /\ EffectiveParallelSafe(hOpen.in)) =>
        /\ hOpen.phase \in {"check", "failed"}
        /\ hOpen.phase = "failed" => hOpen.err = "NgioValueError"
        /\ ~hOpen.opened
        /\ hOpen.content = hOpen.in.content0

\* C8 witness: create_empty_plate with overwrite and cache=True only, on a
\* location that holds a plate, has failed.
C8_Witness ==
    /\ hOpen.in.entry = "create_empty_plate"
    /\ hOpen.in.overwrite /\ hOpen.in.cache /\ hOpen.in.ps_arg = "unset"
    /\ hOpen.in.content0 = "old"
    /\ hOpen.phase = "failed"

----------------------------------------------------------------------------
(* The handlers manager: GenericHandlersManager of ome_zarr_meta/_handlers.py. *)
(* `_implemented_handlers` is a dict: a sequence of <<key, value>> items in    *)
(* insertion order.  A raw document is known by the handler types whose        *)
(* validation accepts it.                                                      *)

MaxAdds == 3

Versions == {"0.4", "0.5", "0.6"}

HandlerTypes == {"OmeZarrV04ImageHandler", "Plugin"}

Documents == SUBSET HandlerTypes

\* The plate and the other specifications' state, unused and fixed.
PlateUnused ==
    /\ storeArg = <<"plate.zarr">>
    /\ parallel_safe = FALSE
    /\ plateDoc = <<>>
    /\ wellDoc = [w \in WellPaths |-> NoAttrs]
    /\ lockOwner = [f \in LockFiles |-> Free]
    /\ pc = [p \in Procs |-> "idle"]
    /\ call = [p \in Procs |-> NoCall]
    /\ meta = [p \in Procs |-> <<>>]
    /\ res = [p \in Procs |-> "none"]
    /\ calls = 0
    /\ kinds = {}
    /\ anyErr = FALSE
    /\ addedOk = {}
    /\ snap = [p \in Procs |-> NoSnap]
    /\ retry = NoRetry

Reverse(s) == [i \in 1..Len(s) |-> s[Len(s) + 1 - i]]

\* dict.keys(), in insertion order
Keys(d) == [i \in 1..Len(d) |-> d[i].key]

\* `key in d`
HasKey(d, k) == \E i \in 1..Len(d) : d[i].key = k

\* d[k], for a key the dict holds
Lookup(d, k) == d[CHOOSE i \in 1..Len(d) : d[i].key = k].value

\* `d[k] = v`: a new key is inserted last, a key the dict holds keeps its place.
DictSet(d, k, v) ==
    IF HasKey(d, k)
    THEN [i \in 1..Len(d) |-> IF d[i].key = k THEN [key |-> k, value |-> v] ELSE d[i]]
    ELSE Append(d, [key |-> k, value |-> v])

\* available_handlers(): `list(reversed(self._implemented_handlers.keys()))`
available_handlers(registry) == Reverse(Keys(registry))

\* Mutant of ProbingItems: the versions are tried in insertion order.
ProbingItemsForward(registry) == registry

\* get_handler: `for version, handler in reversed(self._implemented_handlers.items())`
ProbingItems(registry) == Reverse(registry)

\* `meta = handler.safe_load_meta()`: the meta, or the handler's own
\* validation error of the document.
Validates(handler, doc) == handler \in doc

ValidationErrorOf(handler, doc) == [by |-> handler, doc |-> doc]

\* Mutant of RecordError: only the last failure is kept.
RecordLastError(errors, version, e) == <<[key |-> version, value |-> e]>>

\* `_errors[version] = meta`
RecordError(errors, version, e) == DictSet(errors, version, e)

\* Mutant of Rejected: a registered key is replaced without the overwrite flag.
NeverRejected(registry, key, overwrite) == FALSE

\* add_handler: `if key in self._implemented_handlers and not overwrite:`
Rejected(registry, key, overwrite) == HasKey(registry, key) /\ ~overwrite

\* Mutant of Registered: a key registered again is moved to the last place.
RegisteredLast(registry, key, handler) ==
    Append(SelectSeq(registry, LAMBDA it : it.key # key), [key |-> key, value |-> handler])

\* add_handler: `self._implemented_handlers[key] = handler`
Registered(registry, key, handler) == DictSet(registry, key, handler)

NoAdd == [key |-> "", handler |-> "", overwrite |-> FALSE, err |-> "", before |-> <<>>]

NoGet == [pc |-> "idle", doc |-> {}, items |-> <<>>, i |-> 1, errors |-> <<>>,
          probed |-> <<>>, version |-> "", handler |-> "", err |-> ""]

\* The module registers the built-in version when it is imported:
\* `ImageHandlersManager().add_handler("0.4", OmeZarrV04ImageHandler)`.
InitDispatch ==
    /\ PlateUnused
    /\ hOpen = "unused"
    /\ mapper = "unused"
    /\ gh = "unused"
    /\ dispatch = [registry |-> Registered(<<>>, "0.4", "OmeZarrV04ImageHandler"),
                   adds |-> 0,
                   first |-> <<"0.4">>,
                   latest |-> <<"0.4">>,
                   add |-> NoAdd,
                   get |-> NoGet]

GetIdle == dispatch.get.pc \in {"idle", "returned", "raised"}

\* add_handler(key, handler, overwrite).  `first` and `latest` are history: the
\* keys in the order of their first and of their latest registration.
AddHandler(key, handler, overwrite) ==
    /\ GetIdle
    /\ dispatch.adds < MaxAdds
    /\ LET reg == dispatch.registry
           this == [key |-> key, handler |-> handler, overwrite |-> overwrite,
                    err |-> "", before |-> reg]
       IN  IF Rejected(reg, key, overwrite)
           THEN dispatch' = [dispatch EXCEPT
                                !.adds = @ + 1,
                                !.add = [this EXCEPT !.err = "NgioValueError"],
                                !.get = NoGet]
           ELSE dispatch' = [dispatch EXCEPT
                                !.adds = @ + 1,
                                !.registry = Registered(reg, key, handler),
                                !.first = IF HasKey(reg, key) THEN @ ELSE Append(@, key),
                                !.latest = Append(SelectSeq(@, LAMBDA k : k # key), key),
                                !.add = this,
                                !.get = NoGet]
    /\ UNCHANGED <<plateVars, hOpen, mapper, gh>>

\* get_handler(store, ...) on a store whose attributes are `doc`: `_errors = {}`
\* and the start of the loop.
GetHandlerStart(doc) ==
    /\ GetIdle
    /\ dispatch' = [dispatch EXCEPT
                        !.get = [NoGet EXCEPT !.pc = "loop", !.doc = doc,
                                              !.items = ProbingItems(dispatch.registry)]]
    /\ UNCHANGED <<plateVars, hOpen, mapper, gh>>

\* One turn of the loop: the version's handler is built and loads the meta;
\* a validation error is recorded and the loop goes on, a meta ends the call.
GetHandlerProbe ==
    LET g == dispatch.get
    IN  /\ g.pc = "loop"
        /\ g.i <= Len(g.items)
        /\ LET version == g.items[g.i].key
               handler == g.items[g.i].value
           IN  IF Validates(handler, g.doc)
               THEN dispatch' = [dispatch EXCEPT
                                    !.get = [g EXCEPT !.pc = "returned",
                                                      !.probed = Append(@, version),
                                                      !.version = version,
                                                      !.handler = handler]]
               ELSE dispatch' = [dispatch EXCEPT
                                    !.get = [g EXCEPT
                                               !.probed = Append(@, version),
                                               !.errors = RecordError(@, version,
                                                             ValidationErrorOf(handler, g.doc)),
                                               !.i = @ + 1]]
        /\ UNCHANGED <<plateVars, hOpen, mapper, gh>>

\* The loop has ended without a return: `raise NgioValidationError(... {_errors})`
GetHandlerRaise ==
    LET g == dispatch.get
    IN  /\ g.pc = "loop"
        /\ g.i > Len(g.items)
        /\ dispatch' = [dispatch EXCEPT
                            !.get = [g EXCEPT !.pc = "raised",
                                              !.err = "NgioValidationError"]]
        /\ UNCHANGED <<plateVars, hOpen, mapper, gh>>

NextDispatch ==
    \/ \E key \in Versions, handler \in HandlerTypes, overwrite \in BOOLEAN :
          AddHandler(key, handler, overwrite)
    \/ \E doc \in Documents : GetHandlerStart(doc)
    \/ GetHandlerProbe
    \/ GetHandlerRaise

SpecDispatch == InitDispatch /\ [][NextDispatch]_vars

\* The registered versions from the newest to the oldest: the reverse of the
\* order in which they were first registered.
NewestFirst == Reverse(dispatch.first)

IsPrefix(s, t) == Len(s) <= Len(t) /\ s = SubSeq(t, 1, Len(s))

\* C15: get_handler tries the registered versions from the newest to the
\* oldest; when it returns, the version it returns is the first in that order
\* whose handler validates the document, every version tried before it failed,
\* no version after it was tried, and the handler is that version's; a
\* document only the oldest version validates resolves to the oldest version.
C15_FirstValidVersionWins ==
    LET g == dispatch.get
        reg == dispatch.registry
    IN  /\ IsPrefix(g.probed, NewestFirst)
        /\ g.pc = "returned" =>
              /\ g.probed # <<>>
              /\ g.version = g.probed[Len(g.probed)]
              /\ g.handler = Lookup(reg, g.version)
              /\ Validates(g.handler, g.doc)
              /\ \A i \in 1..(Len(g.probed) - 1) :
                    ~Validates(Lookup(reg, g.probed[i]), g.doc)
        /\ ( /\ g.pc \in {"returned", "raised"}
             /\ \A i \in 1..Len(reg) :
                    Validates(reg[i].value, g.doc) <=> reg[i].key = dispatch.first[1] ) =>
              g.pc = "returned" /\ g.version = dispatch.first[1]

\* C15 witness: with three versions registered, the newest failed, the second
\* was returned and the oldest, which validates too, was not tried.
C15_Witness ==
    LET g == dispatch.get
    IN  /\ g.pc = "returned"
        /\ Len(dispatch.registry) = 3
        /\ Len(g.probed) = 2
        /\ Validates(Lookup(dispatch.registry, dispatch.first[1]), g.doc)

\* C16: when no registered version validates the document, get_handler raises
\* one validation error whose errors hold, for every registered version, one
\* entry, the validation failure of that version's handler, and no other entry.
C16_EveryFailureCarried ==
    LET g == dispatch.get
        reg == dispatch.registry
    IN  /\ g.pc = "raised" =>
              /\ g.err = "NgioValidationError"
              /\ Len(g.errors) = Len(reg)
              /\ \A i \in 1..Len(reg) :
                    /\ Cardinality({j \in 1..Len(g.errors) :
                                        g.errors[j].key = reg[i].key}) = 1
                    /\ Lookup(g.errors, reg[i].key) =
                          ValidationErrorOf(reg[i].value, g.doc)
        /\ ( /\ g.pc \in {"returned", "raised"}
             /\ \A i \in 1..Len(reg) : ~Validates(reg[i].value, g.doc) ) =>
              g.pc = "raised"

\* C16 witness: get_handler has raised with three versions registered, two of
\* them with different handlers.
C16_Witness ==
    /\ dispatch.get.pc = "raised"
    /\ Len(dispatch.registry) = 3
    /\ \E i, j \in 1..3 : dispatch.registry[i].value # dispatch.registry[j].value

\* C17: an add_handler for a key that is registered raises without overwrite
\* and leaves the registry (keys, their order, their handlers) as it was; with
\* overwrite it returns and the key's handler is the new one, the other
\* entries being as they were.
C17_RegisteredKeyNeedsOverwrite ==
    LET a == dispatch.add
        reg == dispatch.registry
    IN  (a.key # "" /\ HasKey(a.before, a.key)) =>
            IF ~a.overwrite
            THEN a.err = "NgioValueError" /\ reg = a.before
            ELSE /\ a.err = ""
                 /\ Lookup(reg, a.key) = a.handler
                 /\ Len(reg) = Len(a.before)
                 /\ \A i \in 1..Len(reg) :
                       reg[i].key # a.key => reg[i] = a.before[i]

\* C17 witness: an add_handler without overwrite, of another handler for a key
\* that is registered, has raised on a registry of two versions.
C17_Witness ==
    LET a == dispatch.add
    IN  /\ a.err = "NgioValueError"
        /\ Len(a.before) = 2
        /\ a.handler # Lookup(a.before, a.key)

\* C18 as stated: available_handlers() and the probing order of get_handler
\* list the versions most-recently-registered first, a registration with
\* overwrite of a registered key counting as a registration.
C18_LatestRegisteredFirst ==
    /\ available_handlers(dispatch.registry) = Reverse(dispatch.latest)
    /\ Keys(ProbingItems(dispatch.registry)) = Reverse(dispatch.latest)

\* C18 amended: available_handlers() and the probing order of get_handler
\* list the versions in the reverse order of their first registration; a
\* registration with overwrite of a registered key leaves the key in place.
C18_LatestFirstRegisteredFirst ==
    /\ available_handlers(dispatch.registry) = NewestFirst
    /\ Keys(ProbingItems(dispatch.registry)) = NewestFirst

\* C18 witness: the oldest of three versions has been registered again with
\* overwrite.
C18_Witness ==
    LET a == dispatch.add
    IN  /\ Len(a.before) = 3
        /\ a.overwrite /\ a.err = ""
        /\ a.key = dispatch.first[1]
        /\ dispatch.latest # dispatch.first

----------------------------------------------------------------------------
(* The axes mapper: AxesMapper, validate_axes, transform_array and            *)
(* transform_list of ome_zarr_meta/ngio_specs/_axes.py.  An axis is known by  *)
(* its on_disk_name; indices and positions count from 0 as in the code; a     *)
(* dict is a sequence of items in insertion order.                            *)

MaxAxes == 3

\* The on-disk names the axis lists are made of.
DiskNames == {"t", "c", "y", "x", "xx", "a"}

\* canonical_axes_order()
canonical_axes_order == <<"t", "c", "z", "y", "x">>

\* The canonical fields of AxesSetup in the order of model_dump().
SetupFields == <<"x", "y", "z", "c", "t">>

\* AxesSetup(x=..., y=..., others=...), the other fields at their defaults.
AxesSetup(x, y, others) ==
    [x |-> x, y |-> y, z |-> "z", c |-> "c", t |-> "t", others |-> others]

AxesSetups ==
    {AxesSetup(x, y, others) : x \in {"x", "xx"}, y \in {"y", "x"},
                               others \in {<<>>, <<"a">>, <<"x">>}}

AxesLists == UNION {[1..n -> DiskNames] : n \in 1..MaxAxes}

None == [some |-> FALSE, name |-> "", index |-> 0]

SomeName(n) == [some |-> TRUE, name |-> n, index |-> 0]

SomeIndex(i) == [some |-> TRUE, name |-> "", index |-> i]

\* list.index(v): the position, from 0, of the first occurrence.
IndexOf(names, v) == (CHOOSE i \in 1..Len(names) :
                         names[i] = v /\ \A j \in 1..(i - 1) : names[j] # v) - 1

\* Mutant of HasDuplicates: the names are not compared.
NoDuplicates(names) == FALSE

\* _check_unique_names: `len(set(names)) != len(names)`
HasDuplicates(names) == Cardinality(Range(names)) # Len(names)

\* _check_non_canonical_axes
HasForbiddenOthers(axes_setup, allow_non_canonical_axes) ==
    ~allow_non_canonical_axes /\ Len(axes_setup.others) > 0

\* _check_axes_validity: `_all_known_axes`
AllKnownAxes(axes_setup) ==
    {axes_setup[SetupFields[i]] : i \in 1..Len(SetupFields)} \cup Range(axes_setup.others)

HasInvalidAxis(names, axes_setup) ==
    \E i \in 1..Len(names) : names[i] \notin AllKnownAxes(axes_setup)

\* _check_canonical_order: the mapped names of the canonical axes on disk.
CanonicalOrderOnDisk(names, axes_setup) ==
    LET mapped == [i \in 1..Len(canonical_axes_order) |->
                      axes_setup[canonical_axes_order[i]]]
    IN  SelectSeq(mapped, LAMBDA n : n \in Range(names))

\* Mutant of OutOfCanonicalOrder: the order is never looked at.
AnyOrderAccepted(names, axes_setup, strict_canonical_order) == FALSE

OutOfCanonicalOrder(names, axes_setup, strict_canonical_order) ==
    strict_canonical_order /\ names # CanonicalOrderOnDisk(names, axes_setup)

\* Mutant of validate_axes: the two flags are not tested against each other.
validate_axes_flags_unchecked(names, axes_setup, allow_non_canonical_axes, strict_canonical_order) ==
    IF HasDuplicates(names) THEN "unique_names"
    ELSE IF HasForbiddenOthers(axes_setup, allow_non_canonical_axes) THEN "non_canonical"
    ELSE IF HasInvalidAxis(names, axes_setup) THEN "axes_validity"
    ELSE IF OutOfCanonicalOrder(names, axes_setup, strict_canonical_order)
    THEN "canonical_order"
    ELSE ""

\* validate_axes: the first check that raises NgioValidationError, or "".
validate_axes(names, axes_setup, allow_non_canonical_axes, strict_canonical_order) ==
    IF allow_non_canonical_axes /\ strict_canonical_order THEN "exclusive_flags"
    ELSE IF HasDuplicates(names) THEN "unique_names"
    ELSE IF HasForbiddenOthers(axes_setup, allow_non_canonical_axes) THEN "non_canonical"
    ELSE IF HasInvalidAxis(names, axes_setup) THEN "axes_validity"
    ELSE IF OutOfCanonicalOrder(names, axes_setup, strict_canonical_order)
    THEN "canonical_order"
    ELSE ""

\* _compute_name_mapping: the canonical keys first, then every on-disk name
\* that is no key yet, mapped to itself.
RECURSIVE WithOnDiskNames(_, _, _)
WithOnDiskNames(mapping, names, i) ==
    IF i > Len(names) THEN mapping
    ELSE WithOnDiskNames(IF HasKey(mapping, names[i]) THEN mapping
                         ELSE DictSet(mapping, names[i], SomeName(names[i])),
                         names, i + 1)

compute_name_mapping(names, axes_setup) ==
    LET canonical == [i \in 1..Len(SetupFields) |->
                        [key |-> SetupFields[i],
                         value |-> IF axes_setup[SetupFields[i]] \in Range(names)
                                   THEN SomeName(axes_setup[SetupFields[i]])
                                   ELSE None]]
    IN  WithOnDiskNames(canonical, names, 1)

\* _compute_index_mapping
compute_index_mapping(name_mapping, names) ==
    [i \in 1..Len(name_mapping) |->
        [key |-> name_mapping[i].key,
         value |-> IF name_mapping[i].value.some
                   THEN SomeIndex(IndexOf(names, name_mapping[i].value.name))
                   ELSE None]]

\* `self._extended_canonical_order = [*axes_setup.others, *self._canonical_order]`
extended_canonical_order(axes_setup) == axes_setup.others \o canonical_axes_order

\* _change_order, its first loop: the error raised at the first offending
\* name, or "".
RECURSIVE CheckRequested(_, _, _, _)
CheckRequested(m, requested, i, unique_names) ==
    IF i > Len(requested) THEN
        IF Len(m.names) > Cardinality(unique_names) THEN "axes_not_queried" ELSE ""
    ELSE IF ~HasKey(m.index_mapping, requested[i]) THEN "invalid_axis_name"
    ELSE LET u == Lookup(m.name_mapping, requested[i])
         IN  IF ~u.some THEN CheckRequested(m, requested, i + 1, unique_names)
             ELSE IF u.name \in unique_names THEN "duplicate_axis_name"
             ELSE CheckRequested(m, requested, i + 1, unique_names \cup {u.name})

\* _change_order, its second loop: `_indices` and `_insert`.
Indices(m, requested) ==
    LET present == SelectSeq(requested, LAMBDA n : Lookup(m.index_mapping, n).some)
    IN  [k \in 1..Len(present) |-> Lookup(m.index_mapping, present[k]).index]

RECURSIVE Inserts(_, _, _)
Inserts(m, requested, i) ==
    IF i > Len(requested) THEN <<>>
    ELSE (IF Lookup(m.index_mapping, requested[i]).some THEN <<>> ELSE <<i - 1>>)
         \o Inserts(m, requested, i + 1)

\* np.argsort of distinct numbers
ArgSort(s) ==
    [k \in 1..Len(s) |->
        (CHOOSE j \in 1..Len(s) :
            Cardinality({n \in 1..Len(s) : s[n] < s[j]}) = k - 1) - 1]

AxesTranspose(axes) == [op |-> "transpose", axes |-> axes]

AxesExpand(axes) == [op |-> "expand", axes |-> axes]

AxesSqueeze(axes) == [op |-> "squeeze", axes |-> axes]

\* Mutant of to_order: no position is inserted for the absent axes.
to_order_without_expand(m, requested) ==
    <<AxesTranspose(Indices(m, requested)), AxesExpand(<<>>)>>

\* to_order
to_order(m, requested) ==
    <<AxesTranspose(Indices(m, requested)), AxesExpand(Inserts(m, requested, 1))>>

\* Mutant of from_order: the transpose is inverted before the squeeze.
from_order_transpose_first(m, requested) ==
    <<AxesTranspose(ArgSort(Indices(m, requested))),
      AxesSqueeze(Inserts(m, requested, 1))>>

\* from_order
from_order(m, requested) ==
    <<AxesSqueeze(Inserts(m, requested, 1)),
      AxesTranspose(ArgSort(Indices(m, requested)))>>

\* An array is known by its dimensions, each the axis of the on-disk array it
\* carries (0 for an inserted one) and its length: the on-disk array has the
\* lengths 2, 3, 4, ... so that no two dimensions can be taken for each other.
Failed == [ok |-> FALSE, value |-> <<>>]

Done(v) == [ok |-> TRUE, value |-> v]

OnDiskArray(names) == [k \in 1..Len(names) |-> [axis |-> k, length |-> k + 1]]

Singleton == [axis |-> 0, length |-> 1]

Distinct(s) == Cardinality(Range(s)) = Len(s)

\* np.transpose(array, axes): axes must be a permutation of the dimensions.
np_transpose(array, axes) ==
    IF Len(axes) = Len(array) /\ Range(axes) = {k - 1 : k \in 1..Len(array)}
    THEN Done([k \in 1..Len(axes) |-> array[axes[k] + 1]])
    ELSE Failed

\* np.expand_dims(array, axis=axes): the positions are those of the result.
np_expand_dims(array, axes) ==
    LET ndim == Len(array) + Len(axes)
    IN  IF Distinct(axes) /\ \A a \in Range(axes) : a < ndim
        THEN Done([q \in 1..ndim |->
                     IF (q - 1) \in Range(axes) THEN Singleton
                     ELSE array[q - Cardinality({a \in Range(axes) : a < q})]])
        ELSE Failed

\* np.squeeze(array, axis=axes): only dimensions of length one can go.
np_squeeze(array, axes) ==
    IF /\ Distinct(axes)
       /\ \A a \in Range(axes) : a < Len(array) /\ array[a + 1].length = 1
    THEN LET kept[i \in 0..Len(array)] ==
                 IF i = 0 THEN <<>>
                 ELSE IF (i - 1) \in Range(axes) THEN kept[i - 1]
                 ELSE Append(kept[i - 1], array[i])
         IN  Done(kept[Len(array)])
    ELSE Failed

\* transform_array
RECURSIVE transform_array(_, _, _)
transform_array(array, operations, i) ==
    IF i > Len(operations) THEN Done(array)
    ELSE LET operation == operations[i]
             r == CASE operation.op = "transpose" -> np_transpose(array, operation.axes)
                    [] operation.op = "expand" -> np_expand_dims(array, operation.axes)
                    [] operation.op = "squeeze" -> np_squeeze(array, operation.axes)
         IN  IF r.ok THEN transform_array(r.value, operations, i + 1) ELSE Failed

\* `[input_list[i] for i in operation.axes]`
list_transpose(input_list, axes) ==
    IF \A a \in Range(axes) : a < Len(input_list)
    THEN Done([k \in 1..Len(axes) |-> input_list[axes[k] + 1]])
    ELSE Failed

\* `for ax in operation.axes: input_list.insert(ax, default)`
RECURSIVE list_expand(_, _, _, _)
list_expand(input_list, default, axes, i) ==
    IF i > Len(axes) THEN Done(input_list)
    ELSE LET at == IF axes[i] < Len(input_list) THEN axes[i] ELSE Len(input_list)
         IN  list_expand(SubSeq(input_list, 1, at) \o <<default>>
                             \o SubSeq(input_list, at + 1, Len(input_list)),
                         default, axes, i + 1)

\* `for offset, ax in enumerate(operation.axes): input_list.pop(ax - offset)`
RECURSIVE list_squeeze(_, _, _)
list_squeeze(input_list, axes, i) ==
    IF i > Len(axes) THEN Done(input_list)
    ELSE IF axes[i] < i - 1 \/ axes[i] - (i - 1) >= Len(input_list) THEN Failed
    ELSE LET at == axes[i] - (i - 1)
         IN  list_squeeze(SubSeq(input_list, 1, at)
                             \o SubSeq(input_list, at + 2, Len(input_list)),
                          axes, i + 1)

\* transform_list
RECURSIVE transform_list(_, _, _, _)
transform_list(input_list, default, operations, i) ==
    IF i > Len(operations) THEN Done(input_list)
    ELSE LET operation == operations[i]
             r == CASE operation.op = "transpose" ->
                            list_transpose(input_list, operation.axes)
                    [] operation.op = "expand" ->
                            list_expand(input_list, default, operation.axes, 1)
                    [] operation.op = "squeeze" ->
                            list_squeeze(input_list, operation.axes, 1)
         IN  IF r.ok THEN transform_list(r.value, default, operations, i + 1)
             ELSE Failed

\* `input_list.pop(ax - offset)`: the list after the pops made before one of
\* them raises.
RECURSIVE popped(_, _, _)
popped(input_list, axes, i) ==
    IF i > Len(axes) \/ axes[i] < i - 1 \/ axes[i] - (i - 1) >= Len(input_list)
    THEN input_list
    ELSE LET at == axes[i] - (i - 1)
         IN  popped(SubSeq(input_list, 1, at)
                        \o SubSeq(input_list, at + 2, Len(input_list)),
                    axes, i + 1)

\* transform_list, the list object the caller passed as it is after the call:
\* `insert` and `pop` act on the object `input_list` names, which is the
\* caller's until `input_list = [...]` of a transpose binds the name to a new
\* list.
RECURSIVE CallersList(_, _, _, _)
CallersList(input_list, default, operations, i) ==
    IF i > Len(operations) THEN input_list
    ELSE LET operation == operations[i]
         IN  CASE operation.op = "transpose" -> input_list
               [] operation.op = "expand" ->
                      CallersList(list_expand(input_list, default, operation.axes, 1).value,
                                  default, operations, i + 1)
               [] operation.op = "squeeze" ->
                      IF list_squeeze(input_list, operation.axes, 1).ok
                      THEN CallersList(list_squeeze(input_list, operation.axes, 1).value,
                                       default, operations, i + 1)
                      ELSE popped(input_list, operation.axes, 1)

\* transform_list, what the caller's argument holds after the call: a tuple
\* is copied by `input_list = list(input_list)` before anything else.
InputAfter(input_list, is_tuple, default, operations) ==
    IF is_tuple THEN input_list ELSE CallersList(input_list, default, operations, 1)

\* AxisType, SpaceUnits and TimeUnits; NoValue is Python's None as the unit or
\* the type of an axis.
AxisType == {"channel", "time", "space"}

SpaceUnits == {"nanometer", "nm", "micrometer", "um", "millimeter", "mm",
               "centimeter", "cm"}

TimeUnits == {"seconds", "s"}

NoValue == "None"

\* SpaceUnits.default() and TimeUnits.default()
SpaceUnitsDefault == "um"

TimeUnitsDefault == "s"

\* Axis(on_disk_name=..., unit=..., axis_type=...)
Axis(on_disk_name, unit, axis_type) ==
    [on_disk_name |-> on_disk_name, unit |-> unit, axis_type |-> axis_type]

\* The unit and type the axes of an axis list are declared with.
AxisKinds ==
    {[unit |-> NoValue, axis_type |-> NoValue],
     [unit |-> "um", axis_type |-> "space"],
     [unit |-> "seconds", axis_type |-> "time"],
     [unit |-> "mm", axis_type |-> "channel"],
     [unit |-> NoValue, axis_type |-> "channel"]}

\* Mutant of implicit_type_cast: the unit is kept as it was declared.
implicit_type_cast_keeping_unit(axis, cast_type) ==
    Axis(axis.on_disk_name, axis.unit, cast_type)

\* Axis.implicit_type_cast
implicit_type_cast(axis, cast_type) ==
    IF cast_type = "time" /\ axis.unit \notin TimeUnits
    THEN Axis(axis.on_disk_name, TimeUnitsDefault, "time")
    ELSE IF cast_type = "space" /\ axis.unit \notin SpaceUnits
    THEN Axis(axis.on_disk_name, SpaceUnitsDefault, "space")
    ELSE IF cast_type = "channel" /\ axis.unit # NoValue
    THEN Axis(axis.on_disk_name, NoValue, "channel")
    ELSE Axis(axis.on_disk_name, axis.unit, cast_type)

\* Axis.canonical_axis_cast
canonical_axis_cast(axis, canonical_name) ==
    CASE canonical_name = "t" ->
            IF axis.axis_type # "time" \/ axis.unit \notin TimeUnits
            THEN implicit_type_cast(axis, "time") ELSE axis
      [] canonical_name = "c" ->
            IF axis.axis_type # "channel" \/ axis.unit # NoValue
            THEN implicit_type_cast(axis, "channel") ELSE axis
      [] canonical_name \in {"z", "y", "x"} ->
            IF axis.axis_type # "space" \/ axis.unit \notin SpaceUnits
            THEN implicit_type_cast(axis, "space") ELSE axis
      [] OTHER -> axis

\* The result of get_index / get_axis: absent (None), an index, an axis, or
\* the NgioValueError of an invalid name.
Absent == [kind |-> "None", index |-> 0, axis |-> Axis("", NoValue, NoValue)]

AnIndex(i) == [kind |-> "index", index |-> i, axis |-> Axis("", NoValue, NoValue)]

AnAxis(a) == [kind |-> "axis", index |-> 0, axis |-> a]

InvalidAxisName ==
    [kind |-> "invalid_axis_name", index |-> 0, axis |-> Axis("", NoValue, NoValue)]

\* Mutant of get_index: a name that is no key is answered with None.
get_index_lenient(index_mapping, name) ==
    IF ~HasKey(index_mapping, name) THEN Absent
    ELSE LET i == Lookup(index_mapping, name)
         IN  IF i.some THEN AnIndex(i.index) ELSE Absent

\* AxesMapper.get_index
get_index(index_mapping, name) ==
    IF ~HasKey(index_mapping, name) THEN InvalidAxisName
    ELSE LET i == Lookup(index_mapping, name)
         IN  IF i.some THEN AnIndex(i.index) ELSE Absent

\* AxesMapper.get_axis
get_axis(index_mapping, on_disk_axes, name) ==
    LET index == get_index(index_mapping, name)
    IN  IF index.kind = "index" THEN AnAxis(on_disk_axes[index.index + 1])
        ELSE index

\* AxesMapper.validate_axex_type: every axis is cast for the first canonical
\* name get_axis answers with it; the others are kept.
validate_axex_type(index_mapping, on_disk_axes) ==
    [k \in 1..Len(on_disk_axes) |->
        LET axes == on_disk_axes[k]
            matching == SelectSeq(canonical_axes_order,
                            LAMBDA name :
                                get_axis(index_mapping, on_disk_axes, name)
                                    = AnAxis(axes))
        IN  IF Len(matching) > 0 THEN canonical_axis_cast(axes, matching[1])
            ELSE axes]

\* The Axis objects of an axis list declared with one unit and type.
OnDiskAxes(names, kind) ==
    [k \in 1..Len(names) |-> Axis(names[k], kind.unit, kind.axis_type)]

\* The names a caller asks get_index and get_axis for.
AskedNames == DiskNames \cup {"z", "b"}

NoQuery == [op |-> "", name |-> "", result |-> Absent]

MapperInputs ==
    [axes : AxesLists, kind : AxisKinds, setup : AxesSetups,
     allow_non_canonical_axes : BOOLEAN, strict_canonical_order : BOOLEAN]

DefaultValue == "-"

InitMapper ==
    /\ PlateUnused
    /\ hOpen = "unused"
    /\ dispatch = "unused"
    /\ gh = "unused"
    /\ \E in \in MapperInputs :
          mapper = [in |-> in, phase |-> "new", err |-> "", names |-> in.axes,
                    name_mapping |-> <<>>, index_mapping |-> <<>>, plan |-> <<>>,
                    array |-> OnDiskArray(in.axes), list |-> in.axes,
                    on_disk_axes |-> OnDiskAxes(in.axes, in.kind),
                    query |-> NoQuery,
                    given |-> <<>>, is_tuple |-> FALSE, kept |-> <<>>]

\* AxesMapper.__init__: validate_axes, then the two mappings, then the cast
\* of the axes in validate_axex_type.
NewAxesMapper ==
    /\ mapper.phase = "new"
    /\ LET in == mapper.in
           failing == validate_axes(in.axes, in.setup, in.allow_non_canonical_axes,
                                    in.strict_canonical_order)
           name_mapping == compute_name_mapping(in.axes, in.setup)
           index_mapping == compute_index_mapping(name_mapping, in.axes)
       IN  IF failing # ""
           THEN mapper' = [mapper EXCEPT !.phase = "failed", !.err = failing]
           ELSE mapper' = [mapper EXCEPT
                              !.phase = "built",
                              !.name_mapping = name_mapping,
                              !.index_mapping = index_mapping,
                              !.on_disk_axes =
                                  validate_axex_type(index_mapping,
                                                     mapper.on_disk_axes)]
    /\ UNCHANGED <<plateVars, hOpen, dispatch, gh>>

\* to_canonical() / from_canonical(): the plan, or the NgioValueError of
\* _change_order.
Plan(from, to, order) ==
    /\ mapper.phase = from
    /\ LET requested == extended_canonical_order(mapper.in.setup)
           failing == CheckRequested(mapper, requested, 1, {})
       IN  IF failing # ""
           THEN mapper' = [mapper EXCEPT !.phase = "raised", !.err = failing]
           ELSE mapper' = [mapper EXCEPT !.phase = to,
                                         !.plan = IF order = "to"
                                                  THEN to_order(mapper, requested)
                                                  ELSE from_order(mapper, requested)]
    /\ UNCHANGED <<plateVars, hOpen, dispatch, gh>>

ToCanonical == Plan("built", "to_canonical", "to")

FromCanonical == Plan("canonical", "from_canonical", "from")

\* transform_array(array, plan) and transform_list(list, default, plan), the
\* per-axis values passed as a list or as a tuple; `given` is the argument as
\* it was passed and `kept` what it holds after the call.
Transform(from, to) ==
    /\ mapper.phase = from
    /\ \E is_tuple \in BOOLEAN :
          LET a == transform_array(mapper.array, mapper.plan, 1)
              l == transform_list(mapper.list, DefaultValue, mapper.plan, 1)
              kept == InputAfter(mapper.list, is_tuple, DefaultValue, mapper.plan)
          IN  IF a.ok /\ l.ok
              THEN mapper' = [mapper EXCEPT !.phase = to, !.array = a.value,
                                            !.list = l.value, !.given = mapper.list,
                                            !.is_tuple = is_tuple, !.kept = kept]
              ELSE mapper' = [mapper EXCEPT !.phase = "raised", !.err = "transform",
                                            !.given = mapper.list,
                                            !.is_tuple = is_tuple, !.kept = kept]
    /\ UNCHANGED <<plateVars, hOpen, dispatch, gh>>

TransformToCanonical == Transform("to_canonical", "canonical")

TransformFromCanonical == Transform("from_canonical", "back")

\* mapper.get_index(name) on a constructed mapper
GetIndex(name) ==
    /\ mapper.phase = "built"
    /\ mapper' = [mapper EXCEPT
                     !.phase = "asked",
                     !.query = [op |-> "get_index", name |-> name,
                                result |-> get_index(mapper.index_mapping, name)]]
    /\ UNCHANGED <<plateVars, hOpen, dispatch, gh>>

\* mapper.get_axis(name) on a constructed mapper
GetAxis(name) ==
    /\ mapper.phase = "built"
    /\ mapper' = [mapper EXCEPT
                     !.phase = "asked",
                     !.query = [op |-> "get_axis", name |-> name,
                                result |-> get_axis(mapper.index_mapping,
                                                    mapper.on_disk_axes, name)]]
    /\ UNCHANGED <<plateVars, hOpen, dispatch, gh>>

NextMapper ==
    \/ NewAxesMapper
    \/ \E name \in AskedNames : GetIndex(name)
    \/ \E name \in AskedNames : GetAxis(name)
    \/ ToCanonical
    \/ TransformToCanonical
    \/ FromCanonical
    \/ TransformFromCanonical

SpecMapper == InitMapper /\ [][NextMapper]_vars

\* A setup that names five different on-disk axes for the canonical ones and
\* lists none of them among its others.
DistinctSetup(axes_setup) ==
    /\ \A i, j \in 1..Len(SetupFields) :
          i # j => axes_setup[SetupFields[i]] # axes_setup[SetupFields[j]]
    /\ \A i \in 1..Len(SetupFields) :
          axes_setup[SetupFields[i]] \notin Range(axes_setup.others)

\* C19 as stated: for every axis list and setup (of distinct names) the
\* construction accepts, to_canonical() and from_canonical() give their
\* plans, and applying the first and then the second returns the array (same
\* dimensions at the same places) and the per-axis list (one element per
\* on-disk axis) unchanged.
C19_RoundTrip ==
    DistinctSetup(mapper.in.setup) =>
        /\ mapper.phase # "raised"
        /\ mapper.phase = "back" =>
              /\ mapper.array = OnDiskArray(mapper.in.axes)
              /\ mapper.list = mapper.in.axes

\* C20: a construction on axes two of which have the same on_disk_name
\* fails with a validation error, whatever the setup and the two flags.
C20_DuplicateNamesRejected ==
    (\E i, j \in 1..Len(mapper.in.axes) :
        i # j /\ mapper.in.axes[i] = mapper.in.axes[j]) =>
            /\ mapper.phase \in {"new", "failed"}
            /\ mapper.phase = "failed" =>
                  mapper.err \in {"exclusive_flags", "unique_names"}

\* C20 witness: with both flags off and a setup that knows every name, the
\* construction on the axes y, x, x has failed.
C20_Witness ==
    /\ mapper.in.axes = <<"y", "x", "x">>
    /\ ~mapper.in.allow_non_canonical_axes /\ ~mapper.in.strict_canonical_order
    /\ mapper.in.setup = AxesSetup("x", "y", <<>>)
    /\ mapper.phase = "failed"

\* The on-disk names the canonical axes t, c, z, y, x have in a setup, in
\* that order, without those that are not among the names present.
RECURSIVE MappedAndPresent(_, _, _)
MappedAndPresent(keys, axes_setup, present) ==
    IF keys = <<>> THEN <<>>
    ELSE (IF axes_setup[Head(keys)] \in present THEN <<axes_setup[Head(keys)]>>
          ELSE <<>>) \o MappedAndPresent(Tail(keys), axes_setup, present)

\* Every order of the axes of a list.
Orders(names) ==
    {[k \in 1..Len(names) |-> names[f[k]]] : f \in Permutations(1..Len(names))}

\* The case of C21: strict order asked, non-canonical axes not allowed and
\* none declared, the on-disk names unique and known to the setup.
StrictCase(in) ==
    /\ in.strict_canonical_order /\ ~in.allow_non_canonical_axes
    /\ in.setup.others = <<>>
    /\ \A i, j \in 1..Len(in.axes) : i # j => in.axes[i] # in.axes[j]
    /\ \A i \in 1..Len(in.axes) :
          \E key \in {"t", "c", "z", "y", "x"} : in.setup[key] = in.axes[i]

\* C21: in the strict case a construction succeeds exactly when the on-disk
\* names, in their order, are the on-disk names of t, c, z, y, x that are
\* present; every other order of the axes of an accepted list is refused
\* for its order.
C21_StrictOrderExactlyCanonical ==
    (StrictCase(mapper.in) /\ mapper.phase # "new") =>
        /\ mapper.phase # "failed" <=>
              mapper.in.axes =
                  MappedAndPresent(<<"t", "c", "z", "y", "x">>, mapper.in.setup,
                                   {mapper.in.axes[i] : i \in 1..Len(mapper.in.axes)})
        /\ mapper.phase = "failed" => mapper.err = "canonical_order"
        /\ mapper.phase # "failed" =>
              \A other \in Orders(mapper.in.axes) \ {mapper.in.axes} :
                  validate_axes(other, mapper.in.setup, FALSE, TRUE)
                      = "canonical_order"

\* C21 witness: the axes t, y, xx in that order, with x named xx on disk,
\* have been accepted in the strict case.
C21_Witness ==
    /\ StrictCase(mapper.in)
    /\ mapper.in.axes = <<"t", "y", "xx">>
    /\ mapper.in.setup = AxesSetup("xx", "y", <<>>)
    /\ mapper.phase = "built"

\* C22: a construction with allow_non_canonical_axes and
\* strict_canonical_order both true fails, whatever the axes and the setup.
C22_BothFlagsAlwaysFail ==
    (/\ mapper.in.allow_non_canonical_axes
     /\ mapper.in.strict_canonical_order
     /\ mapper.phase # "new") =>
        mapper.phase = "failed" /\ mapper.err = "exclusive_flags"

\* C22 witness: the axes t, y, x in canonical order with the default setup,
\* which pass every other check, have been refused for the two flags.
C22_Witness ==
    /\ mapper.in.allow_non_canonical_axes /\ mapper.in.strict_canonical_order
    /\ mapper.in.axes = <<"t", "y", "x">>
    /\ mapper.in.setup = AxesSetup("x", "y", <<>>)
    /\ validate_axes(mapper.in.axes, mapper.in.setup, FALSE, TRUE) = ""
    /\ validate_axes(mapper.in.axes, mapper.in.setup, TRUE, FALSE) = ""
    /\ mapper.phase = "failed"

\* The keys get_index recognizes, and those of them that have an on-disk
\* axis: a canonical key whose on-disk name in the setup is on disk, or an
\* on-disk name that is no canonical key.
IsCanonical(n) == n \in {"t", "c", "z", "y", "x"}

OnDiskNameSet == {mapper.in.axes[i] : i \in 1..Len(mapper.in.axes)}

Recognized(n) == IsCanonical(n) \/ n \in OnDiskNameSet

HasOnDiskAxis(n) ==
    IF IsCanonical(n) THEN mapper.in.setup[n] \in OnDiskNameSet
    ELSE n \in OnDiskNameSet

\* C23: on a constructed mapper, for a key with an on-disk axis get_index
\* answers the position of the axis whose on_disk_name the name mapping gives
\* for the key, and get_axis answers the axis at that position; for a
\* recognized key without an on-disk axis both answer None; for a name that
\* is neither canonical nor on disk get_index raises the invalid-name error.
C23_IndexAndAxisAgree ==
    mapper.phase = "asked" =>
        LET n == mapper.query.name
            r == mapper.query.result
        IN  /\ HasOnDiskAxis(n) =>
                 LET given == Lookup(mapper.name_mapping, n)
                 IN  /\ given.some
                     /\ mapper.query.op = "get_index" =>
                           /\ r.kind = "index"
                           /\ r.index + 1 \in 1..Len(mapper.on_disk_axes)
                           /\ mapper.on_disk_axes[r.index + 1].on_disk_name
                                 = given.name
                     /\ mapper.query.op = "get_axis" =>
                           /\ r.kind = "axis"
                           /\ r.axis.on_disk_name = given.name
                           /\ \E i \in 1..Len(mapper.on_disk_axes) :
                                 /\ mapper.on_disk_axes[i] = r.axis
                                 /\ mapper.in.axes[i] = given.name
            /\ (Recognized(n) /\ ~HasOnDiskAxis(n)) => r = Absent
            /\ (~Recognized(n) /\ mapper.query.op = "get_index") =>
                  r = InvalidAxisName

\* C23 witness: on the axes t, xx with x named xx on disk, get_axis("x") has
\* answered the second axis.
C23_Witness ==
    /\ mapper.phase = "asked"
    /\ mapper.query.op = "get_axis" /\ mapper.query.name = "x"
    /\ mapper.in.axes = <<"t", "xx">>
    /\ mapper.query.result.kind = "axis"
    /\ mapper.query.result.axis.on_disk_name = "xx"

\* The keys of the name mapping that resolve an on-disk name.
ResolvingKeys(name) ==
    {i \in 1..Len(mapper.name_mapping) :
        mapper.name_mapping[i].value = SomeName(name)}

Constructed == mapper.phase \notin {"new", "failed"}

\* C24 as stated: after a successful construction every on-disk axis is the
\* value of exactly one key of the name mapping, a canonical key or its own
\* name.
C24_ResolvedByExactlyOneKey ==
    Constructed =>
        \A i \in 1..Len(mapper.in.axes) :
            /\ Cardinality(ResolvingKeys(mapper.in.axes[i])) = 1
            /\ \A k \in ResolvingKeys(mapper.in.axes[i]) :
                  \/ IsCanonical(mapper.name_mapping[k].key)
                  \/ mapper.name_mapping[k].key = mapper.in.axes[i]

\* What the name mapping does for every accepted input: an axis is the value of
\* every canonical key the setup names it for and, unless its name is itself
\* a canonical key, of an identity entry under its own name, and of no other
\* key.
ResolvedByItsKeys ==
    Constructed =>
        \A i \in 1..Len(mapper.in.axes) :
            LET n == mapper.in.axes[i]
            IN  {mapper.name_mapping[k].key : k \in ResolvingKeys(n)}
                  = {key \in {"t", "c", "z", "y", "x"} : mapper.in.setup[key] = n}
                      \cup (IF IsCanonical(n) THEN {} ELSE {n})

\* The on-disk axis x of a constructed mapper is the value of no key: the
\* setup names the canonical x axis xx and lists x among its others.
ResolvedByNoKey ==
    /\ Constructed
    /\ mapper.in.axes = <<"x">>
    /\ mapper.in.setup = AxesSetup("xx", "y", <<"x">>)
    /\ ResolvingKeys("x") = {}

\* The canonical slots an on-disk axis is in: the canonical keys the name
\* mapping resolves to its name.
SlotsOf(name) ==
    {key \in {"t", "c", "z", "y", "x"} :
        Lookup(mapper.name_mapping, key) = SomeName(name)}

\* The type and unit family of a canonical slot.
FitsSlot(axis, key) ==
    CASE key = "t" -> axis.axis_type = "time" /\ axis.unit \in {"seconds", "s"}
      [] key = "c" -> axis.axis_type = "channel" /\ axis.unit = "None"
      [] OTHER -> /\ axis.axis_type = "space"
                  /\ axis.unit \in {"nanometer", "nm", "micrometer", "um",
                                    "millimeter", "mm", "centimeter", "cm"}

CanonicalElement(names, axes_setup, key) ==
    LET on_disk_name == IF key \in Range(canonical_axes_order)
                        THEN axes_setup[key] ELSE key
    IN  IF on_disk_name \in Range(names) THEN on_disk_name ELSE DefaultValue

\* The element of the on-disk axis the mapper's name mapping has for a key.
MappedElement(name_mapping, key) ==
    IF Lookup(name_mapping, key).some THEN Lookup(name_mapping, key).name
    ELSE DefaultValue

\* No name of the setup's others is the name of a canonical key.
OthersApart(axes_setup) ==
    \A name \in Range(axes_setup.others) : name \notin Range(canonical_axes_order)

Ascending(s) == \A i, j \in 1..Len(s) : i < j => s[i] < s[j]

\* C34: the plan of to_canonical() is a Transpose whose indices are a
\* permutation of the on-disk indices followed by an Expand whose positions
\* are ascending; applied to a per-axis list it gives a list of length 5 plus
\* the number of `others` that holds, at each position of the extended
\* canonical order, the element of the on-disk axis the key maps to, and the
\* default where the key has no on-disk axis.
C34_ToCanonicalList ==
    LET order == extended_canonical_order(mapper.in.setup)
        n == Len(mapper.in.axes)
    IN  /\ mapper.phase \in {"to_canonical", "canonical"} =>
              /\ Len(mapper.plan) = 2
              /\ mapper.plan[1].op = "transpose" /\ mapper.plan[2].op = "expand"
              /\ Len(mapper.plan[1].axes) = n
              /\ Range(mapper.plan[1].axes) = {k - 1 : k \in 1..n}
              /\ Ascending(mapper.plan[2].axes)
        /\ mapper.phase = "canonical" =>
              /\ Len(mapper.list) = 5 + Len(mapper.in.setup.others)
              /\ \A k \in 1..Len(order) :
                    /\ mapper.list[k] = MappedElement(mapper.name_mapping, order[k])
                    /\ OthersApart(mapper.in.setup) =>
                          mapper.list[k] =
                              CanonicalElement(mapper.in.axes, mapper.in.setup, order[k])

\* C34 witness: the per-axis list of the on-disk axes x, a, y, with `a` among
\* the setup's others, has been brought to the extended canonical order.
C34_Witness ==
    /\ mapper.phase = "canonical"
    /\ mapper.in.axes = <<"x", "a", "y">>
    /\ mapper.in.setup.others = <<"a">>
    /\ mapper.plan = <<AxesTranspose(<<1, 2, 0>>), AxesExpand(<<1, 2, 3>>)>>
    /\ mapper.list = <<"a", DefaultValue, DefaultValue, DefaultValue, "y", "x">>

\* C35 as stated: on every mapper that was constructed, to_canonical() and
\* from_canonical() give their plans, none of them raises.
C35_PlansOfEveryMapper == mapper.phase # "raised"

\* to_canonical() raises on a constructed mapper whose setup lists among its
\* others a name that is not on disk.
RaisesOnAbsentOthers ==
    /\ mapper.phase = "raised" /\ mapper.err = "invalid_axis_name"
    /\ \E i \in 1..Len(mapper.in.setup.others) :
          mapper.in.setup.others[i] \notin Range(mapper.in.axes)

\* The plans exist whenever the names of the setup's others are all on disk
\* and no on-disk axis is reached by two names of the extended canonical
\* order or by none.
PlansOfPlainSetups ==
    LET order == extended_canonical_order(mapper.in.setup)
        reach(k) == CanonicalElement(mapper.in.axes, mapper.in.setup, order[k])
    IN  ( /\ Range(mapper.in.setup.others) \subseteq Range(mapper.in.axes)
          /\ \A i, j \in 1..Len(order) :
                (i # j /\ reach(i) # DefaultValue) => reach(i) # reach(j)
          /\ \A name \in Range(mapper.in.axes) : \E k \in 1..Len(order) : reach(k) = name
          /\ OthersApart(mapper.in.setup) )
        => mapper.phase # "raised"

\* C36 as stated: what the caller passed to transform_list holds after the
\* call what it held before.
C36_InputListUnchanged ==
    mapper.phase \in {"canonical", "back"} => mapper.kept = mapper.given

\* The caller's argument is unchanged when it is a tuple and when the plan
\* starts with a Transpose or with an operation on no axes.
InputUnchangedUnlessSqueezed ==
    ( /\ mapper.phase \in {"canonical", "back"}
      /\ \/ mapper.is_tuple
         \/ mapper.phase = "canonical"
         \/ mapper.plan[1].axes = <<>> )
        => mapper.kept = mapper.given

\* A list passed with a from_canonical() plan that squeezes has lost the
\* squeezed positions: it is the list before the final transpose.
SqueezedInPlace ==
    /\ mapper.phase = "back" /\ ~mapper.is_tuple
    /\ mapper.plan[1].op = "squeeze" /\ mapper.plan[1].axes # <<>>
    /\ Len(mapper.kept) = Len(mapper.given) - Len(mapper.plan[1].axes)

----------------------------------------------------------------------------
(* Properties of the mutation protocol *)

Listed(w) == w \in Range(wells_paths(plateDoc))

NonEmpty(w) == Len(wellDoc[w].images) > 0

AllIdle == \A p \in Procs : Idle(p)

\* Every call so far was atomic_add_image or atomic_remove_image.
AtomicRun == kinds # {} /\ \A k \in kinds : k[2]

\* Every call so far has returned, none of them with an error.
AllReturned == AllIdle /\ ~anyErr

\* C1 as stated: after atomic adds and removes that all returned without
\* error, the plate document lists a well exactly when the well's document
\* has a non-empty image list.
C1_PlateAndWellsAgree ==
    (AtomicRun /\ AllReturned) =>
        \A w \in WellPaths : Listed(w) <=> NonEmpty(w)

\* C1 amended: after atomic adds and removes that all returned without error,
\* every well the plate document lists has a non-empty image list.
C1_ListedWellsHaveImages ==
    (AtomicRun /\ AllReturned) =>
        \A w \in WellPaths : Listed(w) => NonEmpty(w)

\* C1 witness: an atomic add and an atomic remove have both returned without
\* error and a listed well holds an image.
C1_Witness ==
    /\ AllReturned
    /\ kinds = {<<"add", TRUE>>, <<"remove", TRUE>>}
    /\ \E w \in WellPaths : Listed(w) /\ NonEmpty(w)

\* Process p's last call was `op`, ran with no other call in progress, and no
\* call has started since: snap[p] holds the documents it found.
RanAlone(p, op) == Idle(p) /\ call[p].op = op /\ snap[p].valid

\* C2: a non-atomic remove_image that ran alone and returned: if it removed
\* the well's last image, the well document has an empty image list and the
\* plate document does not list the well; if other images remained, the plate
\* document is as it was.
C2_CascadeInSameCall ==
    \A p \in Procs :
        (RanAlone(p, "remove") /\ ~call[p].atomic /\ res[p] = "ok") =>
            IF snap[p].well.images = <<call[p].image>>
            THEN wellDoc[Well(p)].images = <<>> /\ ~Listed(Well(p))
            ELSE plateDoc = snap[p].plate

\* C2 witness: a remove_image that ran alone has removed the last image of a
\* listed well, and the plate no longer lists the well.
C2_Witness ==
    \E p \in Procs :
        /\ RanAlone(p, "remove") /\ ~call[p].atomic /\ res[p] = "ok"
        /\ snap[p].well.images = <<call[p].image>>
        /\ Well(p) \in Range(wells_paths(snap[p].plate))
        /\ ~Listed(Well(p))

\* C3: an add_image(row, column, p) that ran alone and returned leaves the
\* plate document listing the well "<row>/<column>" and the well's image
\* paths equal to those it had before followed by p, a well node without
\* attributes counting as the empty list; on a fresh plate the wells are
\* exactly ["<row>/<column>"] and the paths exactly [p].
C3_AddImageAppends ==
    \A p \in Procs :
        (RanAlone(p, "add") /\ res[p] = "ok") =>
            /\ Listed(call[p].row \o "/" \o call[p].column)
            /\ wellDoc[Well(p)].has_attrs
            /\ wellDoc[Well(p)].images = snap[p].well.images \o <<call[p].image>>
            /\ (snap[p].plate = <<>> /\ ~snap[p].well.has_attrs) =>
                  /\ wells_paths(plateDoc) = <<call[p].row \o "/" \o call[p].column>>
                  /\ wellDoc[Well(p)].images = <<call[p].image>>

\* C3 witness: an add_image that ran alone on a well holding an image has
\* returned.
C3_Witness ==
    \E p \in Procs :
        /\ RanAlone(p, "add") /\ res[p] = "ok" /\ ~call[p].atomic
        /\ Len(snap[p].well.images) = 1
        /\ Len(wellDoc[Well(p)].images) = 2

InPlatePhase(p) ==
    /\ call[p].atomic
    /\ pc[p] \in {"add_load_plate", "add_write_plate", "add_exit_plate",
                  "rmw_load_plate", "rmw_write_plate", "rmw_exit_plate"}

InWellPhase(p) ==
    /\ call[p].atomic
    /\ pc[p] \in {"add_load_well", "add_write_well", "add_exit_well",
                  "rm_load_well", "rm_write_well", "rmw_enter_plate",
                  "rmw_load_plate", "rmw_write_plate", "rmw_exit_plate",
                  "rm_exit_well"}

C6_CascadeNotSelfBlocked ==
    \A p \in Procs :
        (call[p].atomic /\ pc[p] = "rmw_enter_plate") =>
            lockOwner[PlateLockPath] # p

\* The runs whose calls are all atomic_add_image or atomic_remove_image.
AtomicNext ==
    \/ \E p \in Procs, op \in {"add", "remove"},
          row \in Rows, column \in Columns, image \in Images :
            StartCall(p, op, TRUE, row, column, image)
    \/ \E p \in Procs : Step(p)
    \/ \E p \in Procs : Fail(p)

\* Every process keeps executing the call it is in: the operations are
\* synchronous code of a running process, and a lock wait ends by itself.
FairSpec == Init /\ [][AtomicNext]_vars /\ \A p \in Procs : WF_vars(Step(p))

\* C7: an atomic operation never waits for a lock forever: every
\* atomic_add_image and atomic_remove_image call that was started eventually
\* returns or raises.
C7_AtomicCallsEnd ==
    \A p \in Procs : (call[p].atomic /\ ~Idle(p)) ~> Idle(p)

\* C7 witness: an atomic call has ended with a lock timeout.
C7_Witness ==
    \E p \in Procs : Idle(p) /\ call[p].atomic /\ res[p] = "Timeout"

\* C9: in every reachable state the well paths of the plate document are
\* pairwise distinct and each is "<row>/<column>" of its entry; an add_image
\* on a listed well therefore adds no second entry.
C9_WellPathsUnique ==
    /\ \A i, j \in 1..Len(plateDoc) : plateDoc[i].path = plateDoc[j].path => i = j
    /\ \A i \in 1..Len(plateDoc) :
          plateDoc[i].path = plateDoc[i].row \o "/" \o plateDoc[i].column

\* C9 witness: an add_image on a well the plate already listed has returned.
C9_Witness ==
    \E p \in Procs :
        /\ RanAlone(p, "add") /\ res[p] = "ok"
        /\ Well(p) \in Range(wells_paths(snap[p].plate))
        /\ Listed(Well(p))

\* C10: a remove_image, running alone, of an image path that the well's
\* document does not hold does not return: it raises the not-found error
\* (unless the storage fails first), and the well document and the plate
\* document are as they were.
C10_RemoveAbsentImage ==
    \A p \in Procs :
        ( /\ RanAlone(p, "remove") /\ ~call[p].atomic
          /\ snap[p].well.has_attrs
          /\ call[p].image \notin Range(snap[p].well.images) ) =>
            /\ res[p] \in {"NotFound", "StorageError"}
            /\ wellDoc[Well(p)] = snap[p].well
            /\ plateDoc = snap[p].plate

\* C10 witness: a remove_image of an absent image path has raised not-found
\* on a well that holds another image.
C10_Witness ==
    \E p \in Procs :
        /\ RanAlone(p, "remove") /\ ~call[p].atomic
        /\ res[p] = "NotFound"
        /\ Len(snap[p].well.images) = 1
        /\ call[p].image \notin Range(snap[p].well.images)

\* The positions of _add_image after the plate document was persisted.
AfterAddPhase1 ==
    {"add_exit_plate", "add_enter_well", "add_load_well", "add_write_well",
     "add_exit_well"}

\* The positions of _remove_image after the well document was persisted
\* without its last image and before _remove_well has persisted the plate.
BeforeCascadeDone == {"rmw_enter_plate", "rmw_load_plate", "rmw_write_plate"}

\* Process p's call raises in this step.
Raises(p) == ~Idle(p) /\ pc'[p] = "idle" /\ res'[p] # "ok"

\* C12: no rollback. A step in which a call raises leaves the persisted plate
\* and well documents as they are; so, for a call running alone, an add_image
\* that fails after its plate phase leaves the plate document listing the
\* well, and a remove_image that fails between the write of the emptied well
\* document and the end of the cascade leaves the well document without the
\* image.
C12_NoRollback ==
    [][\A p \in Procs :
          Raises(p) =>
              /\ plateDoc' = plateDoc
              /\ wellDoc' = wellDoc
              /\ (call[p].op = "add" /\ pc[p] \in AfterAddPhase1 /\ snap[p].valid) =>
                    Well(p) \in Range(wells_paths(plateDoc'))
              /\ (pc[p] \in BeforeCascadeDone /\ snap[p].valid) =>
                    /\ wellDoc'[Well(p)].has_attrs
                    /\ call[p].image \notin Range(wellDoc'[Well(p)].images)]_vars

\* C12 witness: an add_image that ran alone on a plate not listing the well
\* has failed, the plate lists the well and the well node has no document.
C12_Witness ==
    \E p \in Procs :
        /\ RanAlone(p, "add") /\ res[p] = "StorageError"
        /\ Well(p) \notin Range(wells_paths(snap[p].plate))
        /\ Listed(Well(p))
        /\ ~wellDoc[Well(p)].has_attrs

\* Process p's last call was the retry of a call that had failed at `stage`,
\* and it ran alone.
RetryEnded(p, op, stage) ==
    /\ retry.valid /\ retry.proc = p /\ retry.stage = stage
    /\ RanAlone(p, op)

\* C13: an add_image failed after the plate document was persisted and before
\* the well document was, and the same call was invoked again and returned:
\* the plate and well documents are those of one uninterrupted call on the
\* documents the failed call had found, with one entry for the well and one
\* reference to the image.
C13_RetriedAddAsUninterrupted ==
    \A p \in Procs :
        (RetryEnded(p, "add", "add_between") /\ res[p] = "ok") =>
            /\ plateDoc = PlateWithWell(retry.plate, call[p].row, call[p].column)
            /\ wellDoc[Well(p)] =
                  WellAttrs(InitialWellMeta(retry.well) \o <<call[p].image>>)
            /\ Cardinality({i \in 1..Len(plateDoc) : plateDoc[i].path = Well(p)}) = 1
            /\ Cardinality({i \in 1..Len(wellDoc[Well(p)].images) :
                                wellDoc[Well(p)].images[i] = call[p].image}) = 1

\* C13 witness: the failed add_image had written a new well entry to the
\* plate document, and its retry has returned.
C13_Witness ==
    \E p \in Procs :
        /\ RetryEnded(p, "add", "add_between") /\ res[p] = "ok"
        /\ Well(p) \notin Range(wells_paths(retry.plate))
        /\ Listed(Well(p))

\* C14 as stated: a remove_image failed after the well document was persisted
\* without its last image and before the cascade had removed the well from
\* the plate document, and the same call was invoked again: unless the storage
\* or a lock fails again, the retry returns and the plate document no longer
\* lists the well.
C14_RetriedRemoveCompletes ==
    \A p \in Procs :
        ( /\ RetryEnded(p, "remove", "remove_between")
          /\ res[p] \notin {"StorageError", "Timeout"} ) =>
            /\ res[p] = "ok"
            /\ ~Listed(Well(p))

----------------------------------------------------------------------------
(* The attribute cache of ZarrGroupHandler (utils/_zarr_utils.py): two        *)
(* handlers opened on the same node read and write its attributes.  A         *)
(* document gives every key its value, 0 for a key it does not hold.          *)

HandlerIds == {"h1", "h2"}

AttrKeys == {"x", "y"}

AttrValues == {1}

Docs == [AttrKeys -> {0} \cup AttrValues]

EmptyDoc == [k \in AttrKeys |-> 0]

\* The `attrs` arguments of write_attrs: one key with one value.
AttrsArgs == {d \in Docs : Cardinality({k \in AttrKeys : d[k] # 0}) = 1}

\* Python's None or a dict, as the value of a cache entry.
NoDoc == [some |-> FALSE, doc |-> EmptyDoc]

SomeDoc(d) == [some |-> TRUE, doc |-> d]

\* dict.update
Updated(d, attrs) == [k \in AttrKeys |-> IF attrs[k] # 0 THEN attrs[k] ELSE d[k]]

\* Mutant of UseCache: every handler caches.
UseCacheAlways(handler) == TRUE

\* `self.use_cache`, the constructor's `cache` argument.
UseCache(handler) == handler.use_cache

\* get_from_cache("attrs")
get_from_cache(handler) == IF ~UseCache(handler) THEN NoDoc ELSE handler.cache_attrs

\* add_to_cache("attrs", value)
add_to_cache(handler, value) ==
    IF ~UseCache(handler) THEN handler ELSE [handler EXCEPT !.cache_attrs = value]

\* zarr's Attributes.asdict() of `self.group.attrs`, whose `cache` flag the
\* constructor sets to the handler's: the dict kept from the last read or
\* write through this group, or the stored document.
GroupAttrs(handler, stored) ==
    IF handler.use_cache /\ handler.zarr_cached.some THEN handler.zarr_cached.doc
    ELSE stored

\* zarr keeps the dict it has read or written when its cache flag is set.
ZarrKeeps(handler, d) ==
    IF handler.use_cache THEN [handler EXCEPT !.zarr_cached = SomeDoc(d)] ELSE handler

\* Mutant of Invalidated: the cache entry survives the write.
NotInvalidated(handler) == handler

\* _write_attrs: `self.add_to_cache("attrs", None)`
Invalidated(handler) == add_to_cache(handler, NoDoc)

AttrModes == {"r", "r+"}

NeverUsed == [prev |-> "none", loaded |-> NoDoc, written |-> NoDoc]

NoAttrOp == [op |-> "", h |-> "h1", result |-> EmptyDoc, err |-> "", source |-> "",
             before |-> NeverUsed]

InitAttrs ==
    /\ PlateUnused
    /\ hOpen = "unused"
    /\ dispatch = "unused"
    /\ mapper = "unused"
    /\ \E stored \in {EmptyDoc, [EmptyDoc EXCEPT !["x"] = 1]},
          use_cache \in [HandlerIds -> BOOLEAN], mode \in [HandlerIds -> AttrModes] :
          gh = [attrs |-> stored,
                handlers |-> [h \in HandlerIds |->
                                [use_cache |-> use_cache[h], mode |-> mode[h],
                                 cache_attrs |-> NoDoc, zarr_cached |-> NoDoc]],
                hist |-> [h \in HandlerIds |-> NeverUsed],
                last |-> NoAttrOp]

\* handler.load_attrs()
LoadAttrs(h) ==
    LET handler == gh.handlers[h]
        attrs == get_from_cache(handler)
        read == GroupAttrs(handler, gh.attrs)
        result == IF attrs.some THEN attrs.doc ELSE read
        source == IF attrs.some THEN "cache"
                  ELSE IF read = gh.attrs /\ ~(handler.use_cache /\ handler.zarr_cached.some)
                  THEN "store" ELSE "group"
    IN  /\ gh' = [gh EXCEPT
                    !.handlers[h] =
                        IF attrs.some THEN handler
                        ELSE add_to_cache(ZarrKeeps(handler, read), SomeDoc(read)),
                    !.hist[h] = [@ EXCEPT !.prev = "load", !.loaded = SomeDoc(result)],
                    !.last = [op |-> "load_attrs", h |-> h, result |-> result,
                              err |-> "", source |-> source, before |-> gh.hist[h]]]
        /\ UNCHANGED <<plateVars, hOpen, dispatch, mapper>>

\* handler.write_attrs(attrs, overwrite)
WriteAttrs(h, attrs, overwrite) ==
    LET handler == gh.handlers[h]
        d == Updated(IF overwrite THEN EmptyDoc ELSE gh.attrs, attrs)
    IN  /\ IF handler.mode = "r"
           THEN gh' = [gh EXCEPT
                         !.last = [op |-> "write_attrs", h |-> h, result |-> EmptyDoc,
                                   err |-> "NgioValueError", source |-> "",
                                   before |-> gh.hist[h]]]
           ELSE gh' = [gh EXCEPT
                         !.attrs = d,
                         !.handlers[h] = ZarrKeeps(Invalidated(handler), d),
                         !.hist[h] = [@ EXCEPT !.prev = "write", !.written = SomeDoc(d)],
                         !.last = [op |-> "write_attrs", h |-> h, result |-> d,
                                   err |-> "", source |-> "", before |-> gh.hist[h]]]
        /\ UNCHANGED <<plateVars, hOpen, dispatch, mapper>>

\* handler.clean_cache()
CleanCache(h) ==
    /\ gh.handlers[h].cache_attrs.some
    /\ gh' = [gh EXCEPT
                !.handlers[h].cache_attrs = NoDoc,
                !.hist[h] = [@ EXCEPT !.prev = "clean"],
                !.last = [op |-> "clean_cache", h |-> h, result |-> EmptyDoc,
                          err |-> "", source |-> "", before |-> gh.hist[h]]]
    /\ UNCHANGED <<plateVars, hOpen, dispatch, mapper>>

NextAttrs ==
    \/ \E h \in HandlerIds : LoadAttrs(h)
    \/ \E h \in HandlerIds, attrs \in AttrsArgs, overwrite \in BOOLEAN :
          WriteAttrs(h, attrs, overwrite)
    \/ \E h \in HandlerIds : CleanCache(h)

SpecAttrs == InitAttrs /\ [][NextAttrs]_vars

\* C26: with caching enabled, a load_attrs that follows a write_attrs through
\* the same handler answers the document as it was stored by that write and
\* is not served from the cache; a load_attrs that follows a load_attrs of
\* the same handler, with no write or clean_cache of that handler between
\* them, is served from the cache and answers what the first one answered.
C26_WriteInvalidatesCache ==
    (gh.last.op = "load_attrs" /\ gh.handlers[gh.last.h].use_cache) =>
        /\ gh.last.before.prev = "write" =>
              /\ gh.last.result = gh.last.before.written.doc
              /\ gh.last.source # "cache"
        /\ gh.last.before.prev = "load" =>
              /\ gh.last.source = "cache"
              /\ gh.last.result = gh.last.before.loaded.doc

\* C26 witness: a caching handler that had loaded one document and then
\* written has loaded again and got the document of the write, which is
\* another one than it had loaded before.
C26_Witness ==
    /\ gh.last.op = "load_attrs" /\ gh.handlers[gh.last.h].use_cache
    /\ gh.last.before.prev = "write"
    /\ gh.last.before.loaded.some
    /\ gh.last.before.loaded.doc # gh.last.result
    /\ gh.last.result = gh.attrs

\* The other of the two handlers.
OtherHandler(h) == CHOOSE o \in HandlerIds : o # h

StaleCachedRead ==
    /\ gh.last.op = "load_attrs" /\ gh.handlers[gh.last.h].use_cache
    /\ gh.last.source = "cache"
    /\ gh.last.result # gh.attrs
    /\ gh.hist[OtherHandler(gh.last.h)].prev = "write"
    /\ gh.hist[OtherHandler(gh.last.h)].written.doc = gh.attrs

----------------------------------------------------------------------------
(* Child nodes, derived handlers and the lock file of ZarrGroupHandler        *)
(* (utils/_zarr_utils.py) over one directory store.  Every group has one      *)
(* child name, so a node is known by its depth: 0 is the root the first       *)
(* handler is opened on, 1 its child, 2 the child's child.  All the handlers  *)
(* of the store have the same lock file `<store>.lock`: a derived handler     *)
(* takes its store path from the DirectoryStore of its group.                 *)

\* The deepest node.
MaxDepth == 2

\* The lock file is created at most this many times.
MaxInode == 2

\* The handlers, in the order they are constructed in.
HandlerNames == <<"g1", "g2", "g3">>

Handlers == {HandlerNames[i] : i \in 1..Len(HandlerNames)}

NodeKinds == {"absent", "group", "array"}

AccessModes == {"r", "r+", "w", "w-", "a"}

NoHandler ==
    [exists |-> FALSE, node |-> 0, use_cache |-> FALSE, mode |-> "a",
     parallel_safe |-> FALSE, parent |-> "none", has_lock |-> FALSE,
     lock_counter |-> 0, inode |-> 0, cached |-> FALSE]

\* ZarrGroupHandler(store, cache, mode, parallel_safe, parent) as constructed
\* on a node it could open.
NewHandler(node, cache, mode, parallel_safe_, parent) ==
    [exists |-> TRUE, node |-> node, use_cache |-> cache, mode |-> mode,
     parallel_safe |-> parallel_safe_, parent |-> parent,
     has_lock |-> parallel_safe_, lock_counter |-> 0, inode |-> 0,
     cached |-> FALSE]

\* Mutant of Derived: the child is constructed with the defaults of
\* ZarrGroupHandler for cache and parallel_safe.
DerivedWithDefaults(handlers, h) ==
    NewHandler(handlers[h].node + 1, FALSE, handlers[h].mode, FALSE, h)

\* derive_handler: the handler constructed on the child group.
Derived(handlers, h) ==
    NewHandler(handlers[h].node + 1, handlers[h].use_cache, handlers[h].mode,
               handlers[h].parallel_safe, h)

\* The kind of the node at a depth; the root is a group.
KindAt(nodes, d) == IF d = 0 THEN "group" ELSE nodes[d]

\* A node is there when all the nodes above it are groups.
Present(nodes, d) == \A e \in 0..d : KindAt(nodes, e) # "absent"

\* The store after a node was created or replaced at depth d: what was below
\* it is gone.
WithNode(nodes, d, kind) ==
    [e \in 1..MaxDepth |-> IF e < d THEN nodes[e] ELSE IF e = d THEN kind ELSE "absent"]

NoGroupOp ==
    [op |-> "", h |-> "g1", overwrite |-> FALSE, err |-> "",
     before |-> [e \in 1..MaxDepth |-> "absent"], file |-> 0, made |-> "g1"]

GroupOp(op, h, overwrite, err, made) ==
    [op |-> op, h |-> h, overwrite |-> overwrite, err |-> err,
     before |-> gh.kinds, file |-> gh.lock_file, made |-> made]

\* The first handler is opened on the root of a store that holds nothing, a
\* child group or a child array; the modes w and w- leave or find it empty.
InitGroup ==
    /\ PlateUnused
    /\ hOpen = "unused"
    /\ dispatch = "unused"
    /\ mapper = "unused"
    /\ \E child \in NodeKinds, mode \in AccessModes,
          cache \in BOOLEAN, parallel_safe_ \in BOOLEAN :
          /\ ExclusiveOptions(cache, parallel_safe_) = FALSE
          /\ mode \in {"w", "w-"} => child = "absent"
          /\ gh = [kinds |-> [e \in 1..MaxDepth |-> IF e = 1 THEN child ELSE "absent"],
                   lock_file |-> 0,
                   inodes |-> 0,
                   handlers |-> [h \in Handlers |->
                                   IF h = "g1"
                                   THEN NewHandler(0, cache, mode, parallel_safe_, "none")
                                   ELSE NoHandler],
                   last |-> NoGroupOp]

\* A handler that exists, on a node that is still a group, with a child path.
Usable(h) ==
    /\ gh.handlers[h].exists
    /\ gh.handlers[h].node < MaxDepth
    /\ Present(gh.kinds, gh.handlers[h].node)
    /\ KindAt(gh.kinds, gh.handlers[h].node) = "group"

\* zarr's Group.create_group / Group.zeros without overwrite: the error for
\* a path that holds an array or a group, or "".
ZarrContains(kind) ==
    CASE kind = "array" -> "ContainsArrayError"
      [] kind = "group" -> "ContainsGroupError"
      [] OTHER -> ""

\* create_group: the error it raises, or "".
CreateGroupError(mode, kind, overwrite) ==
    IF mode = "r" THEN "NgioValueError: read only mode"
    ELSE IF overwrite THEN ""
    ELSE IF ZarrContains(kind) = "ContainsGroupError" THEN "NgioFileExistsError"
    ELSE ZarrContains(kind)

\* create_array: the error it raises, or ""; `except Exception` turns every
\* error but ContainsGroupError into NgioValueError.
CreateArrayError(mode, kind, overwrite) ==
    IF mode = "r" THEN "NgioValueError: read only mode"
    ELSE IF overwrite THEN ""
    ELSE IF ZarrContains(kind) = "ContainsGroupError" THEN "NgioFileExistsError"
    ELSE IF ZarrContains(kind) # "" THEN "NgioValueError: error creating array"
    ELSE ""

\* handler.create_group(path, overwrite)
CreateGroup(h, overwrite) ==
    LET handler == gh.handlers[h]
        d == handler.node + 1
        err == CreateGroupError(handler.mode, KindAt(gh.kinds, d), overwrite)
    IN  /\ Usable(h)
        /\ gh' = [gh EXCEPT
                    !.kinds = IF err = "" THEN WithNode(gh.kinds, d, "group") ELSE @,
                    !.handlers[h].cached =
                        IF err = "" THEN handler.use_cache ELSE @,
                    !.last = GroupOp("create_group", h, overwrite, err, h)]
        /\ UNCHANGED <<plateVars, hOpen, dispatch, mapper>>

\* handler.create_array(path, shape, dtype, overwrite=overwrite)
CreateArray(h, overwrite) ==
    LET handler == gh.handlers[h]
        d == handler.node + 1
        err == CreateArrayError(handler.mode, KindAt(gh.kinds, d), overwrite)
    IN  /\ Usable(h)
        /\ gh' = [gh EXCEPT
                    !.kinds = IF err = "" THEN WithNode(gh.kinds, d, "array") ELSE @,
                    !.last = GroupOp("create_array", h, overwrite, err, h)]
        /\ UNCHANGED <<plateVars, hOpen, dispatch, mapper>>

\* handler.derive_handler(path): get_group(path, create_mode=True), which
\* answers a cached group, the group at the path, or creates it, and then
\* the constructor; the new handler takes the first free name.
DeriveHandler(h) ==
    LET handler == gh.handlers[h]
        d == handler.node + 1
        kind == KindAt(gh.kinds, d)
        free == {g \in Handlers : ~gh.handlers[g].exists}
        new == HandlerNames[CHOOSE i \in 1..Len(HandlerNames) :
                                /\ HandlerNames[i] \in free
                                /\ \A j \in 1..(i - 1) : HandlerNames[j] \notin free]
        err == IF handler.cached THEN ""
               ELSE IF kind = "array" THEN "NgioValueError: not a group"
               ELSE IF kind = "group" THEN ""
               ELSE CreateGroupError(handler.mode, kind, FALSE)
    IN  /\ Usable(h)
        /\ free # {}
        /\ handler.cached => kind = "group"
        /\ gh' = [gh EXCEPT
                    !.kinds = IF err = "" /\ kind = "absent"
                              THEN WithNode(gh.kinds, d, "group") ELSE @,
                    !.handlers =
                        IF err # "" THEN @
                        ELSE [@ EXCEPT ![h].cached = handler.use_cache,
                                       ![new] = Derived(gh.handlers, h)],
                    !.last = GroupOp("derive_handler", h, FALSE, err, new)]
        /\ UNCHANGED <<plateVars, hOpen, dispatch, mapper>>

\* `with handler.lock:` entered: FileLock opens the lock file, creating it
\* when it is missing, and locks it; it waits while the file is locked
\* through another FileLock.
AcquireLock(h) ==
    LET handler == gh.handlers[h]
        creates == gh.lock_file = 0
        inode == IF creates THEN gh.inodes + 1 ELSE gh.lock_file
    IN  /\ handler.exists /\ handler.has_lock /\ handler.lock_counter = 0
        /\ creates => gh.inodes < MaxInode
        /\ \A g \in Handlers : gh.handlers[g].inode # inode
        /\ gh' = [gh EXCEPT
                    !.lock_file = inode,
                    !.inodes = IF creates THEN @ + 1 ELSE @,
                    !.handlers[h].lock_counter = 1,
                    !.handlers[h].inode = inode,
                    !.last = GroupOp("acquire", h, FALSE, "", h)]
        /\ UNCHANGED <<plateVars, hOpen, dispatch, mapper>>

\* `with handler.lock:` left: the file is unlocked and stays.
ReleaseLock(h) ==
    /\ gh.handlers[h].exists /\ gh.handlers[h].lock_counter = 1
    /\ gh' = [gh EXCEPT
                !.handlers[h].lock_counter = 0,
                !.handlers[h].inode = 0,
                !.last = GroupOp("release", h, FALSE, "", h)]
    /\ UNCHANGED <<plateVars, hOpen, dispatch, mapper>>

\* remove_lock: `lock_path.exists() and self._lock.lock_counter == 0`
MayUnlink(handlers, h, lock_file) ==
    lock_file # 0 /\ handlers[h].lock_counter = 0

\* handler.remove_lock()
RemoveLock(h) ==
    LET handler == gh.handlers[h]
    IN  /\ handler.exists
        /\ IF ~handler.has_lock
           THEN gh' = [gh EXCEPT !.last = GroupOp("remove_lock", h, FALSE, "", h)]
           ELSE IF MayUnlink(gh.handlers, h, gh.lock_file)
           THEN gh' = [gh EXCEPT
                         !.lock_file = 0,
                         !.handlers[h].has_lock = FALSE,
                         !.last = GroupOp("remove_lock", h, FALSE, "", h)]
           ELSE gh' = [gh EXCEPT
                         !.last = GroupOp("remove_lock", h, FALSE,
                                          "NgioValueError: still in use", h)]
        /\ UNCHANGED <<plateVars, hOpen, dispatch, mapper>>

NextGroup ==
    \/ \E h \in Handlers, overwrite \in BOOLEAN : CreateGroup(h, overwrite)
    \/ \E h \in Handlers, overwrite \in BOOLEAN : CreateArray(h, overwrite)
    \/ \E h \in Handlers : DeriveHandler(h)
    \/ \E h \in Handlers : AcquireLock(h)
    \/ \E h \in Handlers : ReleaseLock(h)
    \/ \E h \in Handlers : RemoveLock(h)

SpecGroup == InitGroup /\ [][NextGroup]_vars

Holding(h) == gh.handlers[h].exists /\ gh.handlers[h].lock_counter > 0

\* C27 as stated: while the lock file is missing no handler of the store
\* holds the lock, and a remove_lock called while a handler holds it has
\* raised the still-in-use error and left the file.
C27_MissingFileMeansNoLock ==
    /\ gh.lock_file = 0 => \A h \in Handlers : ~Holding(h)
    /\ (gh.last.op = "remove_lock" /\ \E h \in Handlers : Holding(h)) =>
          /\ gh.last.err = "NgioValueError: still in use"
          /\ gh.lock_file = gh.last.file

\* What remove_lock does keep: it raises and leaves the file while the
\* handler it is called on holds the lock itself.
RemoveLockChecksOwnLock ==
    (gh.last.op = "remove_lock" /\ Holding(gh.last.h)) =>
        /\ gh.last.err = "NgioValueError: still in use"
        /\ gh.lock_file = gh.last.file

\* Two handlers hold the lock at once, the second on a lock file created
\* after a remove_lock deleted the one the first has locked.
TwoHolders ==
    \E g, h \in Handlers : g # h /\ Holding(g) /\ Holding(h)

\* C28 as stated: create_group and create_array on a handler of mode r raise
\* the read-only error; on a path that holds a group or an array, without
\* overwrite, they raise the already-exists error NgioFileExistsError; and a
\* call that raises leaves every node as it was.
C28_CreateFailsCleanly ==
    gh.last.op \in {"create_group", "create_array"} =>
        LET handler == gh.handlers[gh.last.h]
            existed == KindAt(gh.last.before, handler.node + 1) # "absent"
        IN  /\ handler.mode = "r" =>
                  gh.last.err = "NgioValueError: read only mode"
            /\ (handler.mode # "r" /\ existed /\ ~gh.last.overwrite) =>
                  gh.last.err = "NgioFileExistsError"
            /\ gh.last.err # "" => gh.kinds = gh.last.before

\* What the two calls do keep: in mode r the read-only error, on a path
\* that holds something and without overwrite some error, and no node
\* created or replaced by a call that raises.
CreateFailsSomehow ==
    gh.last.op \in {"create_group", "create_array"} =>
        LET handler == gh.handlers[gh.last.h]
            existed == KindAt(gh.last.before, handler.node + 1) # "absent"
        IN  /\ handler.mode = "r" =>
                  gh.last.err = "NgioValueError: read only mode"
            /\ (handler.mode # "r" /\ existed /\ ~gh.last.overwrite) =>
                  gh.last.err # ""
            /\ gh.last.err # "" => gh.kinds = gh.last.before

\* C29: every handler that derive_handler returned has the cache setting,
\* the access mode and the parallel_safe setting of the handler it was
\* derived from, which is its parent, and so of the first handler of the
\* chain; its node is the child of its parent's.
C29_DerivedSettings ==
    /\ \A h \in Handlers :
          (gh.handlers[h].exists /\ gh.handlers[h].parent # "none") =>
              LET child == gh.handlers[h]
                  parent == gh.handlers[child.parent]
              IN  /\ parent.exists
                  /\ child.use_cache = parent.use_cache
                  /\ child.mode = parent.mode
                  /\ child.parallel_safe = parent.parallel_safe
                  /\ child.node = parent.node + 1
                  /\ child.use_cache = gh.handlers["g1"].use_cache
                  /\ child.mode = gh.handlers["g1"].mode
                  /\ child.parallel_safe = gh.handlers["g1"].parallel_safe
    /\ (gh.last.op = "derive_handler" /\ gh.last.err = "") =>
          /\ gh.handlers[gh.last.made].exists
          /\ gh.handlers[gh.last.made].parent = gh.last.h

\* C29 witness: a handler derived from a derived handler, the first handler
\* being parallel safe in mode r+.
C29_Witness ==
    /\ gh.last.op = "derive_handler" /\ gh.last.err = ""
    /\ gh.last.made = "g3" /\ gh.last.h = "g2"
    /\ gh.handlers["g2"].parent = "g1"
    /\ gh.handlers["g3"].node = 2
    /\ gh.handlers["g3"].parallel_safe /\ gh.handlers["g3"].mode = "r+"

----------------------------------------------------------------------------
(* Properties of the phases of the mutation protocol *)

\* Process p persists the plate document in this step.
PlateWrite(p) ==
    /\ pc[p] \in {"add_write_plate", "rmw_write_plate"}
    /\ pc'[p] \in {"add_exit_plate", "rmw_exit_plate"}

\* Process p persists the document of its well in this step.
WellWrite(p) ==
    /\ pc[p] \in {"add_write_well", "rm_write_well"}
    /\ pc'[p] \in {"add_exit_well", "rm_exit_well", "rmw_enter_plate"}

\* The order of the positions of a call: acquire, load, mutate and persist and
\* invalidate, release; the plate phase of an add is followed by its well
\* phase, the plate phase of a cascade lies inside the well phase of its
\* remove.
PhaseOrder ==
    {<<"add_enter_plate", "add_load_plate">>, <<"add_load_plate", "add_write_plate">>,
     <<"add_write_plate", "add_exit_plate">>, <<"add_exit_plate", "add_enter_well">>,
     <<"add_enter_well", "add_load_well">>, <<"add_load_well", "add_write_well">>,
     <<"add_write_well", "add_exit_well">>, <<"add_exit_well", "idle">>,
     <<"rm_get_well", "rm_enter_well">>, <<"rm_enter_well", "rm_load_well">>,
     <<"rm_load_well", "rm_write_well">>, <<"rm_write_well", "rm_exit_well">>,
     <<"rm_write_well", "rmw_enter_plate">>, <<"rmw_enter_plate", "rmw_load_plate">>,
     <<"rmw_load_plate", "rmw_write_plate">>, <<"rmw_write_plate", "rmw_exit_plate">>,
     <<"rmw_exit_plate", "rm_exit_well">>, <<"rm_exit_well", "idle">>}

\* The lock files process p holds at a position of an atomic call: none
\* outside the phases, the plate's inside a plate phase, the well's inside a
\* well phase.
LocksAt(p) ==
    (IF InPlatePhase(p) THEN {PlateLockPath} ELSE {})
        \cup (IF InWellPhase(p) THEN {WellLockPath} ELSE {})

\* C31: in atomic mode every write of the plate document or of a well
\* document is made by a process that holds that document's lock, and the
\* value written is computed from the document as it was read under the same
\* hold of the lock (at every position between the load and the write the
\* lock is held and the value read is still the persisted one); the positions
\* of a phase follow each other in the order acquire, load, mutate and persist
\* and invalidate, release, the lock being taken by the first step and given
\* back by the last.
C31_WritesUnderLock ==
    [][AtomicRun =>
        /\ plateDoc' # plateDoc => \E p \in Procs : PlateWrite(p)
        /\ wellDoc' # wellDoc => \E p \in Procs : WellWrite(p)
        /\ \A p \in Procs :
            /\ {f \in LockFiles : lockOwner[f] = p} = LocksAt(p)
            /\ PlateWrite(p) =>
                  /\ lockOwner[PlateLockPath] = p /\ lockOwner'[PlateLockPath] = p
                  /\ meta[p] = plateDoc
                  /\ plateDoc' = IF call[p].op = "add"
                                 THEN add_well(plateDoc, call[p].row, call[p].column)
                                 ELSE remove_well(plateDoc, call[p].row, call[p].column)
            /\ WellWrite(p) =>
                  /\ lockOwner[WellLockPath] = p /\ lockOwner'[WellLockPath] = p
                  /\ meta[p] = InitialWellMeta(wellDoc[Well(p)])
                  /\ wellDoc'[Well(p)].images =
                        IF call[p].op = "add"
                        THEN add_image(meta[p], call[p].image)
                        ELSE remove_image(meta[p], call[p].image)
            /\ pc'[p] # pc[p] =>
                  \/ pc[p] = "idle"
                  \/ <<pc[p], pc'[p]>> \in PhaseOrder
                  \/ pc'[p] = "idle" /\ res'[p] # "ok"]_vars

\* C31 witness: an atomic_remove_image has persisted the plate document in
\* the cascade, under the plate's lock and the well's, while an atomic call of
\* the other process waits to enter a phase.
C31_Witness ==
    \E p, q \in Procs :
        /\ p # q
        /\ call[p].atomic /\ pc[p] = "rmw_exit_plate"
        /\ lockOwner[PlateLockPath] = p /\ lockOwner[WellLockPath] = p
        /\ call[q].atomic /\ pc[q] \in {"add_enter_plate", "rm_enter_well"}

\* Every call so far was atomic_add_image.
AtomicAddsOnly == \A k \in kinds : k = <<"add", TRUE>>

WithoutLock ==
    /\ \A f \in LockFiles : lockOwner[f] = Free
    /\ \A p \in Procs :
          /\ res[p] # "Timeout"
          /\ call[p].atomic =>
                /\ pc[p] \in {"idle", "add_enter_plate", "rm_get_well"}
                /\ res[p] # "ok"
                /\ (Idle(p) /\ res[p] # "StorageError") =>
                      res[p] \in {"NgioValueError", "NgioValidationError"}
          /\ ( /\ RanAlone(p, "add") /\ ~call[p].atomic
               /\ call[p].image \notin Range(snap[p].well.images) ) =>
                  res[p] \in {"ok", "StorageError"}
          /\ ( /\ RanAlone(p, "remove") /\ ~call[p].atomic
               /\ call[p].image \in Range(snap[p].well.images) ) =>
                  res[p] \in {"ok", "StorageError"}

\* C37: on a plate whose handler was opened with parallel_safe=False,
\* atomic_add_image and atomic_remove_image raise before any write: such a
\* call never returns, it ends with the error of the missing lock (or of a
\* well that cannot be loaded), and no step of it changes the plate document
\* or a well document.  add_image and remove_image take no lock and wait for
\* none, and they return unless the storage fails or the call asks to add an
\* image the well holds or to remove one it does not hold.
C37_AtomicNeedsLock ==
    /\ [](~parallel_safe => WithoutLock)
    /\ [][(~parallel_safe /\ \E p \in Procs : ~Idle(p) /\ call[p].atomic) =>
              plateDoc' = plateDoc /\ wellDoc' = wellDoc]_vars

\* C37 witness: an atomic_remove_image of an image its well holds has raised
\* on a handler without lock, the image still in its well.
C37_Witness ==
    \E p \in Procs :
        /\ ~parallel_safe
        /\ Idle(p) /\ call[p].atomic /\ call[p].op = "remove"
        /\ res[p] = "NgioValueError"
        /\ call[p].image \in Range(wellDoc[Well(p)].images)

\* C38: a process that is in no call holds no lock file: when an
\* atomic_add_image or atomic_remove_image has returned or raised, at whatever
\* step, neither the plate's lock nor a well's is left held, so every lock
\* that is held is held by a call in progress.
C38_NoLockLeftHeld ==
    \A p \in Procs : Idle(p) => \A f \in LockFiles : lockOwner[f] # p

\* C38 witness: an atomic_remove_image has raised not-found inside its well
\* phase, and the other process has since taken the lock it held.
C38_Witness ==
    \E p, q \in Procs :
        /\ p # q
        /\ Idle(p) /\ call[p].atomic /\ res[p] = "NotFound"
        /\ ~Idle(q) /\ lockOwner[WellLockPath] = q

====
